---- MODULE Spec2Model ----
(***************************************************************************)
(* Schema derivation of ndc-nodejs-lambda (src/src/typescript.ts).         *)
(*                                                                         *)
(* deriveSchemaFromFunctions walks the exported function declarations of   *)
(* one source file; deriveFunctionSchema derives each parameter type and   *)
(* the return type with deriveSchemaTypeForTsType, a depth-first recursion *)
(* over the TypeScript types that fills the pass-scoped registries         *)
(* objectTypeDefinitions and scalarTypeDefinitions.                        *)
(*                                                                         *)
(* deriveSchema creates and checks the TypeScript program first, and its    *)
(* caller may derive the schema of the unchanged source a second time.     *)
(*                                                                         *)
(* The recursion is modelled as an explicit call stack: `call` holds the   *)
(* arguments of the deriveSchemaTypeForTsType invocation about to run,     *)
(* `result` the value just returned, and `stack` the suspended callers.    *)
(* The TypeScript program under analysis (what the ts.TypeChecker          *)
(* answers) is the input: a fixed world of declared types and a catalogue  *)
(* of exported functions, of which Init picks a sequence.                  *)
(***************************************************************************)
EXTENDS Naturals, Sequences, FiniteSets, TLC

(***************************************************************************)
(* Bounds of the model.                                                    *)
(***************************************************************************)
\* The largest number of exported function declarations in one source file.
MaxFunctions == 2
\* The deepest array/nullable nesting among the analysed parameter types.
MaxNest == 21

(***************************************************************************)
(* Strings.  Names and messages are TLA+ strings built with \o; file names *)
(* are sequences of one-character strings, so that path.dirname,           *)
(* String.replace and the regular expressions of qualifyTypeName and       *)
(* gqlName can be computed character by character.                         *)
(***************************************************************************)
Letters ==
    { "a","b","c","d","e","f","g","h","i","j","k","l","m",
      "n","o","p","q","r","s","t","u","v","w","x","y","z",
      "A","B","C","D","E","F","G","H","I","J","K","L","M",
      "N","O","P","Q","R","S","T","U","V","W","X","Y","Z" }

Digits == { "0","1","2","3","4","5","6","7","8","9" }

RECURSIVE Str(_)
Str(chars) == IF chars = <<>> THEN "" ELSE Head(chars) \o Str(Tail(chars))

DigitString(d) ==
    CASE d = 0 -> "0" [] d = 1 -> "1" [] d = 2 -> "2" [] d = 3 -> "3"
      [] d = 4 -> "4" [] d = 5 -> "5" [] d = 6 -> "6" [] d = 7 -> "7"
      [] d = 8 -> "8" [] d = 9 -> "9"

RECURSIVE NatToString(_)
NatToString(n) ==
    IF n < 10 THEN DigitString(n)
    ELSE NatToString(n \div 10) \o DigitString(n % 10)

\* Array.prototype.map: the mapped elements as a sequence, each computed once
Map(f) == SubSeq(f, 1, Len(f))

\* const x = v; F(x) : v is computed once and F sees its value
Const(v, F(_)) == CHOOSE r \in { F(x) : x \in {v} } : TRUE

\* Array.prototype.join
RECURSIVE Join(_, _)
Join(strings, sep) ==
    IF strings = <<>> THEN ""
    ELSE IF Len(strings) = 1 THEN strings[1]
    ELSE strings[1] \o sep \o Join(Tail(strings), sep)

\* The positions at which pat occurs in chars.
Occurrences(chars, pat) ==
    { i \in 1..(Len(chars) + 1 - Len(pat)) :
        SubSeq(chars, i, i + Len(pat) - 1) = pat }

Min(S) == CHOOSE i \in S : \A j \in S : i <= j

Max(S) == CHOOSE i \in S : \A j \in S : i >= j

\* String.prototype.replace(pat, '') with a string pattern: the first
\* occurrence only, wherever it is.
ReplaceFirstWithEmpty(chars, pat) ==
    Const(Occurrences(chars, pat), LAMBDA found :
        IF found = {} THEN chars
        ELSE SubSeq(chars, 1, Min(found) - 1)
                \o SubSeq(chars, Min(found) + Len(pat), Len(chars)))

\* String.prototype.replace(/\.ts$/, '')
StripTsSuffix(chars) ==
    IF Len(chars) >= 3 /\ SubSeq(chars, Len(chars) - 2, Len(chars)) = <<".", "t", "s">>
    THEN SubSeq(chars, 1, Len(chars) - 3)
    ELSE chars

\* path.dirname of an absolute POSIX path
dirname(chars) ==
    LET slashes == { i \in 1..Len(chars) : chars[i] = "/" }
    IN  IF slashes = {} THEN <<".">>
        ELSE IF Max(slashes) = 1 THEN <<"/">>
        ELSE SubSeq(chars, 1, Max(slashes) - 1)

\* n.replace(/^[^a-zA-Z]/, '').replace(/[^0-9a-zA-Z]/g,'_')
gqlName(chars) ==
    LET stripped == IF chars # <<>> /\ chars[1] \notin Letters
                    THEN Tail(chars) ELSE chars
    IN  [ i \in 1..Len(stripped) |->
            IF stripped[i] \in Letters \cup Digits THEN stripped[i] ELSE "_" ]

(***************************************************************************)
(* The TypeScript types the type checker hands out (ts.Type).  A type is   *)
(* an intrinsic, a reference to the library generics Array or Promise, a   *)
(* union, or a declared object-like type looked up in DeclaredTypes.       *)
(* Optional values (T | undefined, T | null) are sequences of length <= 1. *)
(***************************************************************************)
None == <<>>

Some(v) == <<v>>

Intrinsic(name) == [form |-> "intrinsic", name |-> name]

BooleanT == Intrinsic("boolean")
StringT == Intrinsic("string")
NumberT == Intrinsic("number")
NullT == Intrinsic("null")
UndefinedT == Intrinsic("undefined")
VoidT == Intrinsic("void")
BigIntT == Intrinsic("bigint")
TrueT == Intrinsic("true")
FalseT == Intrinsic("false")

ArrayOf(t) == [form |-> "reference", symbol |-> "Array", typeArguments |-> <<t>>]

PromiseOf(t) == [form |-> "reference", symbol |-> "Promise", typeArguments |-> <<t>>]

UnionOf(ts) == [form |-> "union", types |-> ts]

Declared(id) == [form |-> "declared", id |-> id]

(***************************************************************************)
(* Source files of the analysed program.                                   *)
(***************************************************************************)
\* /p/f.ts : the entry file, functionsFilePath
EntryFile == << "/", "p", "/", "f", ".", "t", "s" >>
\* /p/s/a.ts : under the entry file's directory
SubDirFile == << "/", "p", "/", "s", "/", "a", ".", "t", "s" >>
\* /p/s_a.ts : under the entry file's directory
SiblingFile == << "/", "p", "/", "s", "_", "a", ".", "t", "s" >>
\* /o/x.ts : outside the entry file's directory
OutsideTsFile == << "/", "o", "/", "x", ".", "t", "s" >>
\* /o/y.mts : outside the entry file's directory, not a .ts file
OutsideMtsFile == << "/", "o", "/", "y", ".", "m", "t", "s" >>

Symbol(name, files) == [name |-> name, declarations |-> files]

\* An object-like type as the checker reports it: its object flag (or
\* Intersection), its symbol, whether it has an alias symbol, what
\* typeToString renders, an intersection's first constituent, and its
\* properties in declaration order.
ObjectLike(kind, symbol, aliased, rendered, first, props) ==
    [ kind |-> kind, symbol |-> symbol, aliasSymbol |-> aliased,
      typeString |-> rendered, firstConstituent |-> first, properties |-> props ]

Prop(name, type) == [name |-> name, type |-> type]

\* type X = { ... } declared in `file`
Alias(name, file, props) ==
    ObjectLike("Anonymous", Some(Symbol("__type", <<file>>)), TRUE, name, None, props)

\* interface X { ... } declared in `file`
Interface(name, file, props) ==
    ObjectLike("Interface", Some(Symbol(name, <<file>>)), FALSE, name, None, props)

\* IG<T> : an instantiation of interface IG<T> { ... } declared in `file`
InterfaceInstance(name, rendered, file, props) ==
    ObjectLike("Reference", Some(Symbol(name, <<file>>)), FALSE, rendered, None, props)

DeclaredTypes ==
    [ \* type Bar = { a: number, b: string | null }
      Bar |-> Alias("Bar", EntryFile,
                  << Prop("a", NumberT), Prop("b", UnionOf(<<StringT, NullT>>)) >>),
      \* the unnamed object type { a: number, b: string | null } of a
      \* property `lit`, which a signature names by indexed access: Outer["lit"]
      Lit |-> ObjectLike("Anonymous", Some(Symbol("__type", <<EntryFile>>)), FALSE,
                  "{ a: number; b: string | null; }", None,
                  << Prop("a", NumberT), Prop("b", UnionOf(<<StringT, NullT>>)) >>),
      \* the unnamed object type { on: boolean | null } of a property `flag`,
      \* named by indexed access: Outer["flag"]; the checker keeps boolean
      \* in a union as its members false and true
      LitFlag |-> ObjectLike("Anonymous", Some(Symbol("__type", <<EntryFile>>)), FALSE,
                  "{ on: boolean | null; }", None,
                  << Prop("on", UnionOf(<<NullT, FalseT, TrueT>>)) >>),
      \* type Outer = { lit: { a: number, b: string | null } }
      Outer |-> Alias("Outer", EntryFile, << Prop("lit", Declared("Lit")) >>),
      \* type Bad = { ok: number, p: Promise<string>, q: void }
      Bad |-> Alias("Bad", EntryFile,
                  << Prop("ok", NumberT), Prop("p", PromiseOf(StringT)), Prop("q", VoidT) >>),
      \* type Holder = { h: Bad, n: string }
      Holder |-> Alias("Holder", EntryFile,
                  << Prop("h", Declared("Bad")), Prop("n", StringT) >>),
      \* interface Node { next: Node | null, v: number }
      Node |-> Interface("Node", EntryFile,
                  << Prop("next", UnionOf(<<NullT, Declared("Node")>>)), Prop("v", NumberT) >>),
      \* type Tree = { kids: Tree[] }
      Tree |-> Alias("Tree", EntryFile, << Prop("kids", ArrayOf(Declared("Tree"))) >>),
      \* type A = { b: B } ; interface B { a: A[] | undefined, s: string }
      A |-> Alias("A", EntryFile, << Prop("b", Declared("B")) >>),
      B |-> Interface("B", EntryFile,
                  << Prop("a", UnionOf(<<UndefinedT, ArrayOf(Declared("A"))>>)),
                     Prop("s", StringT) >>),
      \* interface Foo { x: string } in /p/s/a.ts ; interface Foo { y: number } in /p/s_a.ts
      FooA |-> Interface("Foo", SubDirFile, << Prop("x", StringT) >>),
      FooB |-> Interface("Foo", SiblingFile, << Prop("y", NumberT) >>),
      \* type Q = { x: string } in /p/s/a.ts ; type Q = { y: boolean } in /p/s_a.ts
      QA |-> Alias("Q", SubDirFile, << Prop("x", StringT) >>),
      QB |-> Alias("Q", SiblingFile, << Prop("y", BooleanT) >>),
      \* interface IG<T> { data: T } : IG<string> and IG<number>
      IGString |-> InterfaceInstance("IG", "IG<string>", EntryFile, << Prop("data", StringT) >>),
      IGNumber |-> InterfaceInstance("IG", "IG<number>", EntryFile, << Prop("data", NumberT) >>),
      \* type Out = { x: string } in /o/x.ts ; type Ext = { x: string } in /o/y.mts
      Out |-> Alias("Out", OutsideTsFile, << Prop("x", StringT) >>),
      Ext |-> Alias("Ext", OutsideMtsFile, << Prop("x", StringT) >>),
      \* type Both = { w: string } & Bar
      Both |-> ObjectLike("Intersection", None, TRUE, "Both",
                  Some(Declared("Bar")),
                  << Prop("w", StringT), Prop("a", NumberT),
                     Prop("b", UnionOf(<<StringT, NullT>>)) >>),
      \* type Brand = string & { tag: number }
      Brand |-> ObjectLike("Intersection", None, TRUE, "Brand",
                  Some(StringT), << Prop("tag", NumberT) >>),
      \* class Cls { x: string }
      Cls |-> ObjectLike("Class", Some(Symbol("Cls", <<EntryFile>>)), FALSE, "Cls",
                  None, << Prop("x", StringT) >>) ]

(***************************************************************************)
(* State.                                                                  *)
(***************************************************************************)
VARIABLES
    program,                \* what loading and compiling the entry file yields
    previous,               \* Some(the earlier call of deriveSchema: the declarations
                            \* it found and what it returned)
    typeChecker,            \* context.typeChecker: the declared types it knows
    functionDeclarations,   \* the exported declarations found in the source file
    pc,                     \* "deriveSchema", "loop", "function", "call", "object",
                            \* "return", "returned" (the pass returned) or "thrown"
    declIndex,              \* declarations the loop of deriveSchemaFromFunctions is done with
    objectTypeDefinitions,  \* context.objectTypeDefinitions: name -> {properties}
    scalarTypeDefinitions,  \* context.scalarTypeDefinitions: name -> {}
    schemaFunctions,        \* name -> FunctionDefinition
    functionIssues,         \* name -> issue strings
    stack,                  \* suspended invocations, innermost last
    call,                   \* Some(arguments of the deriveSchemaTypeForTsType call to run)
    result,                 \* Some(value the innermost finished call returned)
    thrown,                 \* Some(message of the Error that ended the pass)
    diagnosticErrors,       \* TsError.diagnosticErrors of the Error thrown
    derivations             \* finished deriveSchemaTypeForTsType calls with their results

(***************************************************************************)
(* The queries of ts.Type, tsutils and ts.TypeChecker that the derivation  *)
(* makes.                                                                  *)
(***************************************************************************)
isDeclared(tsType) == tsType.form = "declared"

isIntrinsic(tsType, name) == tsType.form = "intrinsic" /\ tsType.name = name

\* tsutils.isTypeReference: instantiations of generic classes and interfaces
isTypeReference(tsType) ==
    \/ tsType.form = "reference"
    \/ isDeclared(tsType) /\ typeChecker[tsType.id].kind = "Reference"

\* tsutils.isObjectType
isObjectType(tsType) ==
    \/ tsType.form = "reference"
    \/ isDeclared(tsType) /\ typeChecker[tsType.id].kind # "Intersection"

\* tsutils.isObjectFlagSet(tsType, ts.ObjectFlags.<flag>)
isObjectFlagSet(tsType, flag) ==
    \/ tsType.form = "reference" /\ flag = "Reference"
    \/ isDeclared(tsType) /\ typeChecker[tsType.id].kind = flag

\* tsutils.isObjectFlagSet(tsType.target, ts.ObjectFlags.Interface): Array
\* and Promise are interfaces of the standard library
isTargetInterface(tsType) == isTypeReference(tsType)

isIntersectionType(tsType) ==
    isDeclared(tsType) /\ typeChecker[tsType.id].kind = "Intersection"

isUnion(tsType) == tsType.form = "union"

\* typeChecker.isArrayType
isArrayType(tsType) == tsType.form = "reference" /\ tsType.symbol = "Array"

\* typeChecker.getTypeArguments
getTypeArguments(tsType) ==
    IF tsType.form = "reference" THEN tsType.typeArguments ELSE <<>>

\* /l/lib.d.ts : where the standard library declares Array and Promise
LibFile == << "/", "l", "/", "l", "i", "b", ".", "d", ".", "t", "s" >>

\* ts.Type.getSymbol
getSymbol(tsType) ==
    CASE tsType.form = "reference" -> Some(Symbol(tsType.symbol, <<LibFile>>))
      [] tsType.form = "declared" -> typeChecker[tsType.id].symbol
      [] OTHER -> None

\* ts.Type.aliasSymbol is defined
hasAliasSymbol(tsType) == isDeclared(tsType) /\ typeChecker[tsType.id].aliasSymbol

\* ts.Type.getProperties with typeChecker.getTypeOfSymbol, see getMembers
getMembers(tsType) ==
    IF isDeclared(tsType) THEN typeChecker[tsType.id].properties ELSE <<>>

\* typeChecker.typeToString
RECURSIVE typeToString(_)
typeToString(tsType) ==
    CASE tsType.form = "intrinsic" -> tsType.name
      [] tsType.form = "declared" -> typeChecker[tsType.id].typeString
      [] tsType.form = "union" ->
            Join(Map([i \in 1..Len(tsType.types) |-> typeToString(tsType.types[i])]), " | ")
      [] tsType.form = "reference" /\ tsType.symbol = "Array" ->
            IF isUnion(tsType.typeArguments[1])
            THEN "(" \o typeToString(tsType.typeArguments[1]) \o ")[]"
            ELSE typeToString(tsType.typeArguments[1]) \o "[]"
      [] OTHER -> tsType.symbol \o "<" \o typeToString(tsType.typeArguments[1]) \o ">"

(***************************************************************************)
(* Type paths and the names and messages made from them.                   *)
(***************************************************************************)
FunctionParameter(functionName, parameterName) ==
    [ segmentType |-> "FunctionParameter", functionName |-> functionName,
      parameterName |-> parameterName ]

FunctionReturn(functionName) ==
    [segmentType |-> "FunctionReturn", functionName |-> functionName]

ObjectProperty(typeName, propertyName) ==
    [ segmentType |-> "ObjectProperty", typeName |-> typeName,
      propertyName |-> propertyName ]

ArraySegment == [segmentType |-> "Array"]

typePathSegmentToString(segment) ==
    CASE segment.segmentType = "FunctionParameter" ->
            "function '" \o segment.functionName \o "' parameter '"
                \o segment.parameterName \o "'"
      [] segment.segmentType = "FunctionReturn" ->
            "function '" \o segment.functionName \o "' return value"
      [] segment.segmentType = "ObjectProperty" ->
            "type '" \o segment.typeName \o "' property '" \o segment.propertyName \o "'"
      [] segment.segmentType = "Array" -> "array type"

typePathToString(segments) ==
    Join(Map([i \in 1..Len(segments) |-> typePathSegmentToString(segments[i])]), ", ")

generateTypeNameFromTypePath(typePath) ==
    Join(Map([ i \in 1..Len(typePath) |->
            CASE typePath[i].segmentType = "FunctionParameter" ->
                    typePath[i].functionName \o "_arguments_" \o typePath[i].parameterName
              [] typePath[i].segmentType = "FunctionReturn" ->
                    typePath[i].functionName \o "_output"
              [] typePath[i].segmentType = "ObjectProperty" ->
                    "field_'" \o typePath[i].propertyName
              [] typePath[i].segmentType = "Array" -> "array" ]),
         "_")

(***************************************************************************)
(* Name qualification.  A computation that may throw yields Returned(v) or *)
(* Thrown(message).                                                        *)
(***************************************************************************)
Returned(v) == [tag |-> "return", value |-> v]

Thrown(message) == [tag |-> "throw", message |-> message]

isUnionOrIntersectionType(tsType) == isUnion(tsType) \/ isIntersectionType(tsType)

\* tsType.types[0] of a union or intersection
firstConstituentOf(tsType) ==
    IF isUnion(tsType) THEN tsType.types[1]
    ELSE typeChecker[tsType.id].firstConstituent[1]

\* `name` is Some(string) or None for null
qualifyTypeName(tsType, typePath, name, functionsFilePath) ==
    LET own == getSymbol(tsType)
        symbol == IF own = None /\ isUnionOrIntersectionType(tsType)
                  THEN getSymbol(firstConstituentOf(tsType))
                  ELSE own
        nameOrGeneratedName ==
            IF name # None THEN name[1] ELSE generateTypeNameFromTypePath(typePath)
    IN  IF symbol = None
        THEN Thrown("Couldn't find symbol for type at " \o typePathToString(typePath))
        ELSE IF symbol[1].declarations = <<>>
        THEN Thrown("Couldn't find any declarations for type "
                        \o (IF name # None THEN name[1] ELSE "null"))
        ELSE LET where == symbol[1].declarations[1]
             IN  Const(StripTsSuffix(
                           ReplaceFirstWithEmpty(where, dirname(functionsFilePath) \o <<"/">>)),
                       LAMBDA short :
                 IF functionsFilePath = where
                 THEN Returned(nameOrGeneratedName)
                 ELSE IF Len(short) < Len(where)
                 THEN Returned(Str(gqlName(short)) \o "_" \o nameOrGeneratedName)
                 ELSE Thrown("Unsupported location for type " \o nameOrGeneratedName
                                \o " in " \o Str(where)))

\* tsType.getSymbol()?.name ?? generateTypeNameFromTypePath(typePath)
symbolNameOrGenerated(tsType, typePath) ==
    IF getSymbol(tsType) # None THEN getSymbol(tsType)[1].name
    ELSE generateTypeNameFromTypePath(typePath)

\* The alias name is never looked at: every anonymous type is named from
\* its type path.
aliasNameIgnored(tsType) == None

\* tsType.aliasSymbol ? typeChecker.typeToString(tsType) : null
aliasNameOrNull(tsType) ==
    IF hasAliasSymbol(tsType) THEN Some(typeToString(tsType)) ELSE None

ObjectTypeInfo(name, members) == [generatedTypeName |-> name, members |-> members]

\* Returned(Some(info)), Returned(None) for null, or Thrown
getObjectTypeInfo(tsType, typePath, functionsFilePath) ==
    LET qualified ==
            qualifyTypeName(tsType, typePath, aliasNameOrNull(tsType), functionsFilePath)
        fromQualified ==
            IF qualified.tag = "throw" THEN qualified
            ELSE Returned(Some(ObjectTypeInfo(qualified.value, getMembers(tsType))))
        fromSymbol ==
            Returned(Some(ObjectTypeInfo(symbolNameOrGenerated(tsType, typePath),
                                         getMembers(tsType))))
    IN  IF isObjectType(tsType) /\ isObjectFlagSet(tsType, "Anonymous")
        THEN fromQualified
        ELSE IF isObjectType(tsType) /\ isObjectFlagSet(tsType, "Interface")
        THEN fromSymbol
        ELSE IF /\ isTypeReference(tsType)
                /\ isTargetInterface(tsType)
                /\ ~isArrayType(tsType)
                /\ (getSymbol(tsType) = None \/ getSymbol(tsType)[1].name # "Promise")
        THEN fromSymbol
        ELSE IF isIntersectionType(tsType)
        THEN fromQualified
        ELSE Returned(None)

(***************************************************************************)
(* Classification helpers of deriveSchemaTypeForTsType.                    *)
(***************************************************************************)
\* Some(inner type) or None for undefined
unwrapPromiseType(tsType) ==
    IF isTypeReference(tsType) /\ getSymbol(tsType) # None
                               /\ getSymbol(tsType)[1].name = "Promise"
    THEN IF Len(getTypeArguments(tsType)) = 1
         THEN Some(getTypeArguments(tsType)[1])
         ELSE None
    ELSE None

isIntrinsicNullType(tsType) == isIntrinsic(tsType, "null")

isIntrinsicUndefinedType(tsType) == isIntrinsic(tsType, "undefined")

\* One marker is stripped at a time: null if there is one, else undefined;
\* what remains is derived next.
unwrapOneMarker(ty) ==
    IF ~isUnion(ty) THEN None
    ELSE LET isNullable == \E i \in 1..Len(ty.types) : isIntrinsicNullType(ty.types[i])
             rest == IF isNullable
                     THEN SelectSeq(ty.types, LAMBDA t : ~isIntrinsicNullType(t))
                     ELSE SelectSeq(ty.types, LAMBDA t : ~isIntrinsicUndefinedType(t))
             nullOrUndefinability ==
                 IF isNullable THEN "AcceptsNullOnly" ELSE "AcceptsUndefinedOnly"
         IN  IF Len(rest) = Len(ty.types) \/ rest = << >> THEN None
             ELSE IF Len(rest) = 1 THEN Some(<<rest[1], nullOrUndefinability>>)
             ELSE Some(<<UnionOf(rest), nullOrUndefinability>>)

\* Some(<<type, nullOrUndefinability>>) or None for null
unwrapNullableType(ty) ==
    IF ~isUnion(ty) THEN None
    ELSE LET isNullable == \E i \in 1..Len(ty.types) : isIntrinsicNullType(ty.types[i])
             isUndefined == \E i \in 1..Len(ty.types) : isIntrinsicUndefinedType(ty.types[i])
             nullOrUndefinability ==
                 IF isNullable
                 THEN (IF isUndefined THEN Some("AcceptsEither") ELSE Some("AcceptsNullOnly"))
                 ELSE (IF isUndefined THEN Some("AcceptsUndefinedOnly") ELSE None)
             typesWithoutNullAndUndefined ==
                 SelectSeq(ty.types,
                           LAMBDA t : ~isIntrinsicNullType(t) /\ ~isIntrinsicUndefinedType(t))
         IN  IF Len(typesWithoutNullAndUndefined) = 1 /\ nullOrUndefinability # None
             THEN Some(<<typesWithoutNullAndUndefined[1], nullOrUndefinability[1]>>)
             ELSE None

\* number is named Int.
scalarNameInt(tsType) ==
    IF isIntrinsic(tsType, "boolean") THEN Some("Boolean")
    ELSE IF isIntrinsic(tsType, "string") THEN Some("String")
    ELSE IF isIntrinsic(tsType, "number") THEN Some("Int")
    ELSE None

\* The scalar name deriveSchemaTypeIfScalarType registers, or None
scalarNameOf(tsType) ==
    IF isIntrinsic(tsType, "boolean") THEN Some("Boolean")
    ELSE IF isIntrinsic(tsType, "string") THEN Some("String")
    ELSE IF isIntrinsic(tsType, "number") THEN Some("Float")
    ELSE None

\* The condition under which deriveSchemaTypeIfTsArrayType returns a result
matchesArrayType(tsType) ==
    /\ isArrayType(tsType)
    /\ isTypeReference(tsType)
    /\ Len(getTypeArguments(tsType)) = 1

MAX_TYPE_DERIVATION_RECURSION == 20

\* The ceiling is reached one level early.
depthReached(recursionDepth) == recursionDepth >= MAX_TYPE_DERIVATION_RECURSION

\* recursionDepth > MAX_TYPE_DERIVATION_RECURSION
depthExceeded(recursionDepth) == recursionDepth > MAX_TYPE_DERIVATION_RECURSION

\* Class types are not looked for.
DispatchWithoutClassCheck(tsType, typePath, recursionDepth, functionsFilePath) ==
    IF depthExceeded(recursionDepth) THEN "depth"
    ELSE IF unwrapPromiseType(tsType) # None THEN "promise"
    ELSE IF isIntrinsic(tsType, "void") THEN "void"
    ELSE IF matchesArrayType(tsType) THEN "array"
    ELSE IF scalarNameOf(tsType) # None THEN "scalar"
    ELSE IF unwrapNullableType(tsType) # None THEN "nullable"
    ELSE IF getObjectTypeInfo(tsType, typePath, functionsFilePath) # Returned(None)
    THEN "object"
    ELSE "fallback"

\* The branch of deriveSchemaTypeForTsType that handles the call
Dispatch(tsType, typePath, recursionDepth, functionsFilePath) ==
    IF depthExceeded(recursionDepth) THEN "depth"
    ELSE IF unwrapPromiseType(tsType) # None THEN "promise"
    ELSE IF isObjectType(tsType) /\ isObjectFlagSet(tsType, "Class") THEN "class"
    ELSE IF isIntrinsic(tsType, "void") THEN "void"
    ELSE IF matchesArrayType(tsType) THEN "array"
    ELSE IF scalarNameOf(tsType) # None THEN "scalar"
    ELSE IF unwrapNullableType(tsType) # None THEN "nullable"
    ELSE IF getObjectTypeInfo(tsType, typePath, functionsFilePath) # Returned(None)
    THEN "object"
    ELSE "fallback"

(***************************************************************************)
(* Schema values (./schema) and derivation results.                        *)
(***************************************************************************)
NamedType(name, kind) == [type |-> "named", kind |-> kind, name |-> name]

ArrayType(elementType) == [type |-> "array", elementType |-> elementType]

NullableType(underlyingType, nullOrUndefinability) ==
    [ type |-> "nullable", underlyingType |-> underlyingType,
      nullOrUndefinability |-> nullOrUndefinability ]

\* DeriveSchemaTypeResult
Derived(typeDefinition, warnings) ==
    [typeDefinition |-> typeDefinition, warnings |-> warnings]

Failed(errors) == [errors |-> errors]

hasErrors(r) == "errors" \in DOMAIN r

(***************************************************************************)
(* The analysed source file: its exported function declarations.           *)
(***************************************************************************)
Param(name, type) == [name |-> name, description |-> "", type |-> type]

\* export function <name>(<parameters>): <returnType>, with its JSDoc
\* description and whether the JSDoc carries @pure.  `name` is None for
\* `export default function (...) {...}`.
FunctionDeclaration(name, description, pure, parameters, returnType) ==
    [ name |-> name, description |-> description, markedPureInJsDoc |-> pure,
      parameters |-> parameters, returnType |-> returnType ]

\* n levels of array / nullable wrapping around number
RECURSIVE Nest(_)
Nest(n) ==
    IF n = 0 THEN NumberT
    ELSE IF n % 2 = 1 THEN ArrayOf(Nest(n - 1))
    ELSE UnionOf(<<Nest(n - 1), NullT>>)

DeepName(n) == "deep" \o NatToString(n)

\* export function deep<n>(a: <n levels around number>): string, for the
\* levels MAX_TYPE_DERIVATION_RECURSION .. MaxNest
DeepFunctions ==
    Map([ i \in 1..(MaxNest - MAX_TYPE_DERIVATION_RECURSION + 1) |->
            LET n == MAX_TYPE_DERIVATION_RECURSION + i - 1
            IN  FunctionDeclaration(Some(DeepName(n)), "", FALSE,
                                    << Param("a", Nest(n)) >>, StringT) ])

Catalogue ==
    << FunctionDeclaration(Some("scalars"), "", FALSE,
          << Param("a", BooleanT), Param("b", StringT), Param("c", NumberT) >>,
          UnionOf(<<StringT, NullT, UndefinedT>>)),
      FunctionDeclaration(Some("bar1"), "uses Bar", TRUE,
          << Param("a", Declared("Bar")) >>, Declared("Both")),
      FunctionDeclaration(Some("bar2"), "", FALSE,
          << Param("a", ArrayOf(Declared("Bar"))),
             Param("b", UnionOf(<<Declared("Bar"), UndefinedT>>)) >>,
          Declared("Bar")),
      FunctionDeclaration(Some("inl"), "", FALSE,
          << Param("a", Declared("Lit")) >>, NumberT),
      FunctionDeclaration(Some("two"), "", FALSE,
          << Param("a", Declared("Lit")), Param("b", Declared("Lit")) >>, StringT),
      FunctionDeclaration(Some("flag"), "", FALSE,
          << Param("a", Declared("LitFlag")) >>, BooleanT),
      FunctionDeclaration(Some("outer"), "", FALSE,
          << Param("a", Declared("Outer")) >>, ArrayOf(Declared("Lit"))),
      FunctionDeclaration(Some("bad1"), "", FALSE,
          << Param("a", Declared("Bad")) >>, StringT),
      FunctionDeclaration(Some("hold"), "", FALSE,
          << Param("a", Declared("Holder")) >>, NumberT),
      \* export function over(a: Bad): string; export function over(a: Bad) {...}
      \* : the overload signature and the implementation are two exported
      \* declarations of one function, both answered with its first signature
      FunctionDeclaration(Some("over"), "", FALSE,
          << Param("a", Declared("Bad")) >>, StringT),
      FunctionDeclaration(Some("over"), "", FALSE,
          << Param("a", Declared("Bad")) >>, StringT),
      FunctionDeclaration(Some("prom"), "", TRUE,
          << Param("a", PromiseOf(StringT)) >>, StringT),
      FunctionDeclaration(Some("multi"), "", FALSE,
          << Param("a", PromiseOf(StringT)), Param("b", Declared("Cls")),
             Param("c", NumberT) >>,
          VoidT),
      FunctionDeclaration(Some("rec"), "", FALSE,
          << Param("a", Declared("Node")), Param("b", Declared("Tree")) >>,
          UnionOf(<<Declared("Node"), NullT>>)),
      FunctionDeclaration(Some("mut"), "", FALSE,
          << Param("a", Declared("A")) >>, StringT),
      FunctionDeclaration(Some("foo"), "", FALSE,
          << Param("a", Declared("FooA")), Param("b", Declared("FooB")) >>, StringT),
      FunctionDeclaration(Some("q"), "", FALSE,
          << Param("a", Declared("QA")), Param("b", Declared("QB")) >>, StringT),
      FunctionDeclaration(Some("ig"), "", FALSE,
          << Param("a", Declared("IGString")), Param("b", Declared("IGNumber")) >>,
          StringT),
      FunctionDeclaration(Some("out"), "", FALSE,
          << Param("a", Declared("Out")) >>, StringT),
      FunctionDeclaration(Some("ext"), "", FALSE,
          << Param("a", Declared("Ext")) >>, StringT),
      FunctionDeclaration(Some("brand"), "", FALSE,
          << Param("a", Declared("Brand")) >>, StringT),
      FunctionDeclaration(Some("fb"), "", FALSE,
          << Param("a", BigIntT), Param("b", UnionOf(<<NullT, FalseT, TrueT>>)),
             Param("c", UnionOf(<<UndefinedT, NullT>>)) >>,
          UnionOf(<<UndefinedT, ArrayOf(Declared("Bar"))>>)),
      FunctionDeclaration(None, "", FALSE, << Param("a", NumberT) >>, NumberT) >>
    \o DeepFunctions

\* The increasing sequences of at most k positions of the catalogue
RECURSIVE Picks(_)
Picks(k) ==
    IF k = 0 THEN { << >> }
    ELSE LET shorter == Picks(k - 1)
         IN  shorter \cup
             { Append(x[1], x[2]) :
                 x \in { y \in shorter \X (1..Len(Catalogue)) :
                            y[1] = << >> \/ y[1][Len(y[1])] < y[2] } }

Reverse(s) == [ i \in 1..Len(s) |-> s[Len(s) + 1 - i] ]

\* The source files analysed: up to MaxFunctions exported declarations of
\* the catalogue, in the catalogue's order or in the reverse order, so that
\* every two declarations are analysed in both orders.
Programs ==
    LET forward == { [ j \in 1..Len(s) |-> Catalogue[s[j]] ] : s \in Picks(MaxFunctions) }
    IN  forward \cup { Reverse(p) : p \in forward }

\* What createTsProgram and the compiler yield for the entry file: the error
\* of reading tsconfig.json (None if it was read), the pre-emit diagnostics,
\* and whether the program knows the entry file as a source file.
TsProgram(configFileError, diagnostics, sourceFile) ==
    [ configFileError |-> configFileError, diagnostics |-> diagnostics,
      sourceFile |-> sourceFile ]

\* Without a configuration there is no program to ask.
TsPrograms ==
    { TsProgram(Some("TS5083"), << >>, FALSE) }
    \cup { TsProgram(None, diagnostics, sourceFile) :
              diagnostics \in { << >>, << "TS2322" >>, << "TS2322", "TS2304" >> },
              sourceFile \in BOOLEAN }

vars == << program, previous, typeChecker, functionDeclarations, pc, declIndex,
           objectTypeDefinitions, scalarTypeDefinitions, schemaFunctions,
           functionIssues, stack, call, result, thrown, diagnosticErrors,
           derivations >>

context == << objectTypeDefinitions, scalarTypeDefinitions >>

outputs == << schemaFunctions, functionIssues >>

functionsFilePath == EntryFile

\* {} : an object with no own keys
EmptyObject == [key \in {} |-> key]

\* object[key] = value
Assign(object, key, value) == (key :> value) @@ object

Top == stack[Len(stack)]

Pop == SubSeq(stack, 1, Len(stack) - 1)

ReplaceTop(frame) == [stack EXCEPT ![Len(stack)] = frame]

\* The arguments of a deriveSchemaTypeForTsType call, with the branch of the
\* function that they select
Call(tsType, typePath, recursionDepth) ==
    [ tsType |-> tsType, typePath |-> typePath, recursionDepth |-> recursionDepth,
      branch |-> Dispatch(tsType, typePath, recursionDepth, functionsFilePath) ]

\* The record of a finished call: its arguments, the branch that handled it
\* ("shortcut" for the already-named shortcut of the object branch), its
\* result, and the declaration the loop was deriving
Derivation(c, by, r) ==
    [ tsType |-> c.tsType, typePath |-> c.typePath,
      recursionDepth |-> c.recursionDepth, by |-> by, result |-> r,
      declaration |-> declIndex + 1 ]

Init ==
    /\ program \in TsPrograms
    /\ previous = None
    /\ typeChecker = DeclaredTypes
    /\ functionDeclarations \in Programs
    /\ pc = "deriveSchema"
    /\ declIndex = 0
    /\ objectTypeDefinitions = EmptyObject
    /\ scalarTypeDefinitions = EmptyObject
    /\ schemaFunctions = EmptyObject
    /\ functionIssues = EmptyObject
    /\ stack = << >>
    /\ call = None
    /\ result = None
    /\ thrown = None
    /\ diagnosticErrors = << >>
    /\ derivations = << >>

(***************************************************************************)
(* deriveSchema: the program is created and checked before the pass.       *)
(***************************************************************************)
\* The TsError or Error leaves deriveSchema.
Throw(message, diagnostics) ==
    /\ thrown' = Some(message)
    /\ diagnosticErrors' = diagnostics
    /\ pc' = "thrown"
    /\ UNCHANGED << program, previous, typeChecker, functionDeclarations, declIndex, context, outputs,
                    stack, call, result, derivations >>

\* loadTsConfig: tsconfig.json was found and could not be read.
ThrowConfigError ==
    /\ pc = "deriveSchema"
    /\ program.configFileError # None
    /\ Throw("Error loading TypeScript compiler configuration (tsconfig.json)",
             << program.configFileError[1] >>)

\* No compiler error is ever seen.
hasDiagnosticsNever(diagnostics) == FALSE

\* diagnostics.length > 0
hasDiagnostics(diagnostics) == Len(diagnostics) > 0

\* throwIfCompilerErrors: the pre-emit diagnostics are thrown, all of them.
ThrowIfCompilerErrors ==
    /\ pc = "deriveSchema"
    /\ program.configFileError = None
    /\ hasDiagnostics(program.diagnostics)
    /\ Throw("Compiler errors", program.diagnostics)

\* program.getSourceFile(functionsFilePath) is undefined.
ThrowNoSourceFile ==
    /\ pc = "deriveSchema"
    /\ program.configFileError = None
    /\ ~hasDiagnostics(program.diagnostics)
    /\ ~program.sourceFile
    /\ Throw("'" \o Str(functionsFilePath)
                 \o "' not returned as a TypeScript compiler source file", << >>)

\* The registries of the earlier pass are used again.
contextKept(objects, scalars) == << objects, scalars >>

\* objectTypeDefinitions: {}, scalarTypeDefinitions: {}
contextCreated(objects, scalars) == << EmptyObject, EmptyObject >>

\* deriveSchemaFromFunctions is called: the registries and the outputs are
\* created empty.
DeriveSchemaFromFunctions ==
    /\ pc = "deriveSchema"
    /\ program.configFileError = None
    /\ ~hasDiagnostics(program.diagnostics)
    /\ program.sourceFile
    /\ objectTypeDefinitions' = contextCreated(objectTypeDefinitions, scalarTypeDefinitions)[1]
    /\ scalarTypeDefinitions' = contextCreated(objectTypeDefinitions, scalarTypeDefinitions)[2]
    /\ schemaFunctions' = EmptyObject
    /\ functionIssues' = EmptyObject
    /\ pc' = "loop"
    /\ UNCHANGED << program, previous, diagnosticErrors, typeChecker, functionDeclarations, declIndex,
                    stack, call, result, thrown, derivations >>

(***************************************************************************)
(* deriveSchemaFromFunctions: the loop over the exported declarations.     *)
(***************************************************************************)
FunctionFrame(declaration) ==
    [ frame |-> "deriveFunctionSchema",
      functionDeclaration |-> declaration,
      functionName |-> declaration.name[1],
      paramIndex |-> 0,
      returning |-> FALSE,
      functionIsBroken |-> FALSE,
      issues |-> << >>,
      functionSchemaArguments |-> << >> ]

\* The loop calls deriveFunctionSchema on the next declaration.
EnterFunction ==
    /\ pc = "loop"
    /\ declIndex < Len(functionDeclarations)
    /\ functionDeclarations[declIndex + 1].name # None
    /\ stack' = Append(stack, FunctionFrame(functionDeclarations[declIndex + 1]))
    /\ pc' = "function"
    /\ UNCHANGED << program, previous, diagnosticErrors, typeChecker, functionDeclarations, declIndex, context, outputs, call, result,
                    thrown, derivations >>

\* functionDeclaration.name ?? throwError(...)
ThrowNoIdentifier ==
    /\ pc = "loop"
    /\ declIndex < Len(functionDeclarations)
    /\ functionDeclarations[declIndex + 1].name = None
    /\ thrown' = Some("Function didn't have an identifier")
    /\ pc' = "thrown"
    /\ UNCHANGED << program, previous, diagnosticErrors, typeChecker, functionDeclarations, declIndex, context, outputs, stack, call,
                    result, derivations >>

\* The value deriveSchemaFromFunctions returns
ReturnedSchema ==
    [ functions |-> schemaFunctions,
      objectTypes |-> objectTypeDefinitions,
      scalarTypes |-> scalarTypeDefinitions,
      functionIssues |-> functionIssues ]

\* A returned pass as its caller remembers it
EarlierPass ==
    [ functionDeclarations |-> functionDeclarations, returned |-> ReturnedSchema ]

\* The caller derives the schema of the unchanged source once more, with
\* the same program and type checker.
DeriveSchemaAgain ==
    /\ pc = "returned"
    /\ previous = None
    /\ previous' = Some(EarlierPass)
    /\ declIndex' = 0
    /\ derivations' = << >>
    /\ pc' = "deriveSchema"
    /\ UNCHANGED << program, typeChecker, functionDeclarations, context, outputs, stack,
                    call, result, thrown, diagnosticErrors >>

\* Another order in which forEachChild can meet the same declarations: the
\* reverse one, which for two declarations is the only other order
Reorderings(declarations) == { Reverse(declarations) } \ { declarations }

\* The caller derives the schema of a source file that declares the same
\* functions in another order.
DeriveSchemaReordered ==
    /\ pc = "returned"
    /\ previous = None
    /\ \E reordered \in Reorderings(functionDeclarations) :
          functionDeclarations' = reordered
    /\ previous' = Some(EarlierPass)
    /\ declIndex' = 0
    /\ derivations' = << >>
    /\ pc' = "deriveSchema"
    /\ UNCHANGED << program, typeChecker, context, outputs, stack,
                    call, result, thrown, diagnosticErrors >>

\* The loop is over: the schema and the issues are returned.
ReturnSchema ==
    /\ pc = "loop"
    /\ declIndex = Len(functionDeclarations)
    /\ pc' = "returned"
    /\ UNCHANGED << program, previous, diagnosticErrors, typeChecker, functionDeclarations, declIndex, context, outputs, stack, call,
                    result, thrown, derivations >>

(***************************************************************************)
(* deriveFunctionSchema.                                                   *)
(***************************************************************************)
\* The flatMap callback derives the next parameter's type.
DeriveParameter ==
    /\ pc = "function"
    /\ Top.paramIndex < Len(Top.functionDeclaration.parameters)
    /\ LET param == Top.functionDeclaration.parameters[Top.paramIndex + 1]
       IN  call' = Some(Call(param.type,
                             << FunctionParameter(Top.functionName, param.name) >>, 0))
    /\ pc' = "call"
    /\ UNCHANGED << program, previous, diagnosticErrors, typeChecker, functionDeclarations, declIndex, context, outputs, stack, result,
                    thrown, derivations >>

\* After the parameters, the return type is derived.
DeriveReturnType ==
    /\ pc = "function"
    /\ Top.paramIndex = Len(Top.functionDeclaration.parameters)
    /\ call' = Some(Call(Top.functionDeclaration.returnType,
                         << FunctionReturn(Top.functionName) >>, 0))
    /\ stack' = ReplaceTop([Top EXCEPT !.returning = TRUE])
    /\ pc' = "call"
    /\ UNCHANGED << program, previous, diagnosticErrors, typeChecker, functionDeclarations, declIndex, context, outputs, result, thrown,
                    derivations >>

ArgumentDefinition(param, typeDefinition) ==
    [ argumentName |-> param.name,
      description |-> IF param.description # "" THEN Some(param.description) ELSE None,
      type |-> typeDefinition ]

\* The argument is put in front of those derived before it.
AfterParameterPrepended(frame, paramTypeResult) ==
    IF hasErrors(paramTypeResult)
    THEN [ frame EXCEPT !.issues = @ \o paramTypeResult.errors,
                        !.functionIsBroken = TRUE,
                        !.paramIndex = @ + 1 ]
    ELSE [ frame EXCEPT !.issues = @ \o paramTypeResult.warnings,
                        !.functionSchemaArguments =
                            << ArgumentDefinition(
                                   frame.functionDeclaration.parameters[frame.paramIndex + 1],
                                   paramTypeResult.typeDefinition) >> \o @,
                        !.paramIndex = @ + 1 ]

\* The callback's handling of paramTypeResult
AfterParameter(frame, paramTypeResult) ==
    LET param == frame.functionDeclaration.parameters[frame.paramIndex + 1]
    IN  IF hasErrors(paramTypeResult)
        THEN [ frame EXCEPT !.issues = @ \o paramTypeResult.errors,
                            !.functionIsBroken = TRUE,
                            !.paramIndex = @ + 1 ]
        ELSE [ frame EXCEPT !.issues = @ \o paramTypeResult.warnings,
                            !.functionSchemaArguments =
                                Append(@, ArgumentDefinition(param, paramTypeResult.typeDefinition)),
                            !.paramIndex = @ + 1 ]

ParameterReturn ==
    /\ pc = "return"
    /\ Top.frame = "deriveFunctionSchema"
    /\ ~Top.returning
    /\ stack' = ReplaceTop(AfterParameter(Top, result[1]))
    /\ result' = None
    /\ pc' = "function"
    /\ UNCHANGED << program, previous, diagnosticErrors, typeChecker, functionDeclarations, declIndex, context, outputs, call, thrown,
                    derivations >>

FunctionDefinition(frame, typeDefinition) ==
    [ description |-> IF frame.functionDeclaration.description # ""
                      THEN Some(frame.functionDeclaration.description) ELSE None,
      ndcKind |-> IF frame.functionDeclaration.markedPureInJsDoc
                  THEN "Function" ELSE "Procedure",
      arguments |-> frame.functionSchemaArguments,
      resultType |-> typeDefinition ]

\* The definition is returned although a parameter was broken.
FunctionResultKeepingBroken(frame, returnTypeResult) ==
    [ name |-> frame.functionName,
      definition |-> IF hasErrors(returnTypeResult) THEN None
                     ELSE Some(FunctionDefinition(frame, returnTypeResult.typeDefinition)),
      issues |-> frame.issues \o (IF hasErrors(returnTypeResult)
                                  THEN returnTypeResult.errors
                                  ELSE returnTypeResult.warnings) ]

\* The DeriveFunctionSchemaResult: definition is None for null
FunctionResult(frame, returnTypeResult) ==
    LET functionIsBroken == frame.functionIsBroken \/ hasErrors(returnTypeResult)
        issues == frame.issues \o (IF hasErrors(returnTypeResult)
                                   THEN returnTypeResult.errors
                                   ELSE returnTypeResult.warnings)
        functionDefinition ==
            IF hasErrors(returnTypeResult) THEN None
            ELSE Some(FunctionDefinition(frame, returnTypeResult.typeDefinition))
    IN  [ name |-> frame.functionName,
          definition |-> IF ~functionIsBroken THEN functionDefinition ELSE None,
          issues |-> issues ]

\* Every result is filed in the issue report, with or without issues.
hasIssuesAlways(issues) == TRUE

\* result.issues.length > 0
hasIssues(issues) == Len(issues) > 0

\* deriveFunctionSchema returns and the loop files its result.
ReturnTypeReturn ==
    /\ pc = "return"
    /\ Top.frame = "deriveFunctionSchema"
    /\ Top.returning
    /\ LET r == FunctionResult(Top, result[1])
       IN  /\ functionIssues' =
                IF hasIssues(r.issues) THEN Assign(functionIssues, r.name, r.issues)
                ELSE functionIssues
           /\ schemaFunctions' =
                IF r.definition # None THEN Assign(schemaFunctions, r.name, r.definition[1])
                ELSE schemaFunctions
    /\ stack' = Pop
    /\ result' = None
    /\ declIndex' = declIndex + 1
    /\ pc' = "loop"
    /\ UNCHANGED << program, previous, diagnosticErrors, typeChecker, functionDeclarations, context, call, thrown, derivations >>

(***************************************************************************)
(* deriveSchemaTypeForTsType: one action per branch.  `branch` is the      *)
(* branch that handles the pending call.                                   *)
(***************************************************************************)
branch == call[1].branch

\* The pending call returns r at once.
ReturnNow(by, r) ==
    /\ result' = Some(r)
    /\ derivations' = Append(derivations, Derivation(call[1], by, r))
    /\ call' = None
    /\ pc' = "return"

\* recursionDepth > MAX_TYPE_DERIVATION_RECURSION: the Error leaves the pass.
DepthExceeded ==
    /\ pc = "call"
    /\ branch = "depth"
    /\ thrown' = Some("Schema inference validation exceeded depth "
                        \o NatToString(MAX_TYPE_DERIVATION_RECURSION)
                        \o " for type " \o typeToString(call[1].tsType))
    /\ pc' = "thrown"
    /\ UNCHANGED << program, previous, diagnosticErrors, typeChecker, functionDeclarations, declIndex, context, outputs, stack, call,
                    result, derivations >>

UnsupportedError(form, typePath) ==
    CASE form = "promise" ->
            "Promise types are not supported, but one was encountered in "
                \o typePathToString(typePath) \o "."
      [] form = "class" ->
            "Class types are not supported, but one was encountered in "
                \o typePathToString(typePath)
      [] form = "void" ->
            "The void type is not supported, but one was encountered in "
                \o typePathToString(typePath)

\* Promise, class and void types are errors.
UnsupportedForm ==
    /\ pc = "call"
    /\ branch \in {"promise", "class", "void"}
    /\ ReturnNow(branch, Failed(<< UnsupportedError(branch, call[1].typePath) >>))
    /\ UNCHANGED << program, previous, diagnosticErrors, typeChecker, functionDeclarations, declIndex, context, outputs, stack, thrown >>

\* The frame of a suspended deriveSchemaTypeIf... invocation
TypeFrame(kind, c) ==
    [ frame |-> kind, tsType |-> c.tsType, typePath |-> c.typePath,
      recursionDepth |-> c.recursionDepth ]

NullableFrame(c, nullOrUndefinability) ==
    [ frame |-> "nullable", tsType |-> c.tsType, typePath |-> c.typePath,
      recursionDepth |-> c.recursionDepth,
      nullOrUndefinability |-> nullOrUndefinability ]

\* deriveSchemaTypeIfTsArrayType recurses into the element type.
ArrayTypeCall ==
    /\ pc = "call"
    /\ branch = "array"
    /\ stack' = Append(stack, TypeFrame("array", call[1]))
    /\ call' = Some(Call(getTypeArguments(call[1].tsType)[1],
                         Append(call[1].typePath, ArraySegment),
                         call[1].recursionDepth + 1))
    /\ UNCHANGED << program, previous, diagnosticErrors, typeChecker, functionDeclarations, pc, declIndex, context, outputs, result,
                    thrown, derivations >>

ArrayResult(innerTypeResult) ==
    IF hasErrors(innerTypeResult) THEN innerTypeResult
    ELSE Derived(ArrayType(innerTypeResult.typeDefinition), innerTypeResult.warnings)

\* The frame's own call finishes with r.
ReturnFromFrame(r) ==
    /\ result' = Some(r)
    /\ derivations' = Append(derivations, Derivation(Top, Top.frame, r))
    /\ stack' = Pop

ArrayTypeReturn ==
    /\ pc = "return"
    /\ Top.frame = "array"
    /\ ReturnFromFrame(ArrayResult(result[1]))
    /\ UNCHANGED << program, previous, diagnosticErrors, typeChecker, functionDeclarations, pc, declIndex, context, outputs, call, thrown >>

\* The scalar is returned without being registered.
registerScalarForgotten(scalars, name) == scalars

\* context.scalarTypeDefinitions[name] = {}
registerScalar(scalars, name) == Assign(scalars, name, EmptyObject)

\* deriveSchemaTypeIfScalarType registers the scalar.
ScalarType ==
    /\ pc = "call"
    /\ branch = "scalar"
    /\ scalarTypeDefinitions' =
           registerScalar(scalarTypeDefinitions, scalarNameOf(call[1].tsType)[1])
    /\ ReturnNow("scalar", Derived(NamedType(scalarNameOf(call[1].tsType)[1], "scalar"), << >>))
    /\ UNCHANGED << program, previous, diagnosticErrors, typeChecker, functionDeclarations, declIndex, objectTypeDefinitions, outputs,
                    stack, thrown >>

\* deriveSchemaTypeIfNullableType recurses into the one type that is not
\* null or undefined, under the same type path.
NullableTypeCall ==
    /\ pc = "call"
    /\ branch = "nullable"
    /\ LET notNullableResult == unwrapNullableType(call[1].tsType)[1]
       IN  /\ stack' = Append(stack,
                  [ TypeFrame("nullable", call[1]) EXCEPT
                        !.frame = "nullable" ] @@
                  [ nullOrUndefinability |-> notNullableResult[2] ])
           /\ call' = Some(Call(notNullableResult[1], call[1].typePath,
                                call[1].recursionDepth + 1))
    /\ UNCHANGED << program, previous, diagnosticErrors, typeChecker, functionDeclarations, pc, declIndex, context, outputs, result,
                    thrown, derivations >>

\* The flag is not computed: every nullable accepts either.
NullableResultEither(notNullableTypeResult, nullOrUndefinability) ==
    IF hasErrors(notNullableTypeResult) THEN notNullableTypeResult
    ELSE Derived(NullableType(notNullableTypeResult.typeDefinition, "AcceptsEither"),
                 notNullableTypeResult.warnings)

NullableResult(notNullableTypeResult, nullOrUndefinability) ==
    IF hasErrors(notNullableTypeResult) THEN notNullableTypeResult
    ELSE Derived(NullableType(notNullableTypeResult.typeDefinition, nullOrUndefinability),
                 notNullableTypeResult.warnings)

NullableTypeReturn ==
    /\ pc = "return"
    /\ Top.frame = "nullable"
    /\ ReturnFromFrame(NullableResult(result[1], Top.nullOrUndefinability))
    /\ UNCHANGED << program, previous, diagnosticErrors, typeChecker, functionDeclarations, pc, declIndex, context, outputs, call, thrown >>

\* None of the forms matched.
Fallback ==
    /\ pc = "call"
    /\ branch = "fallback"
    /\ ReturnNow("fallback", Failed(<< "fallback" >>))
    /\ UNCHANGED << program, previous, diagnosticErrors, typeChecker, functionDeclarations, declIndex, context, outputs, stack, thrown >>

(***************************************************************************)
(* deriveSchemaTypeIfObjectType.                                           *)
(***************************************************************************)
\* getObjectTypeInfo of the pending call
info == getObjectTypeInfo(call[1].tsType, call[1].typePath, functionsFilePath)

\* The registry is never consulted: no type counts as already named.
isRegisteredNever(objects, name) == FALSE

\* context.objectTypeDefinitions[name] is truthy
isRegistered(objects, name) == name \in DOMAIN objects

\* qualifyTypeName throws: the Error leaves the pass.
ObjectTypeThrows ==
    /\ pc = "call"
    /\ branch = "object"
    /\ info.tag = "throw"
    /\ thrown' = Some(info.message)
    /\ pc' = "thrown"
    /\ UNCHANGED << program, previous, diagnosticErrors, typeChecker, functionDeclarations, declIndex, context, outputs, stack, call,
                    result, derivations >>

\* Shortcut recursion if the type has already been named.
ObjectTypeShortcut ==
    /\ pc = "call"
    /\ branch = "object"
    /\ info.tag = "return"
    /\ isRegistered(objectTypeDefinitions, info.value[1].generatedTypeName)
    /\ ReturnNow("shortcut",
                 Derived(NamedType(info.value[1].generatedTypeName, "object"), << >>))
    /\ UNCHANGED << program, previous, diagnosticErrors, typeChecker, functionDeclarations, declIndex, context, outputs, stack, thrown >>

ObjectFrame(c, objectTypeInfo) ==
    [ frame |-> "object", tsType |-> c.tsType, typePath |-> c.typePath,
      recursionDepth |-> c.recursionDepth,
      generatedTypeName |-> objectTypeInfo.generatedTypeName,
      members |-> objectTypeInfo.members,
      index |-> 0,
      errors |-> << >>,
      warnings |-> << >>,
      properties |-> << >> ]

\* No placeholder is registered before the members are derived.
withoutPlaceholder(objects, name) == objects

\* context.objectTypeDefinitions[name] = { properties: [] }, the placeholder
\* that breaks infinite recursion
withPlaceholder(objects, name) == Assign(objects, name, [properties |-> << >>])

\* The type is new: the placeholder is registered before the members are
\* looked at.
ObjectTypePlaceholder ==
    /\ pc = "call"
    /\ branch = "object"
    /\ info.tag = "return"
    /\ ~isRegistered(objectTypeDefinitions, info.value[1].generatedTypeName)
    /\ objectTypeDefinitions' =
           withPlaceholder(objectTypeDefinitions, info.value[1].generatedTypeName)
    /\ stack' = Append(stack, ObjectFrame(call[1], info.value[1]))
    /\ call' = None
    /\ pc' = "object"
    /\ UNCHANGED << program, previous, diagnosticErrors, typeChecker, functionDeclarations, declIndex, scalarTypeDefinitions, outputs,
                    result, thrown, derivations >>

\* The flatMap callback derives the next member's type.
DeriveProperty ==
    /\ pc = "object"
    /\ Top.index < Len(Top.members)
    /\ LET member == Top.members[Top.index + 1]
       IN  call' = Some(Call(member.type,
                             Append(Top.typePath,
                                    ObjectProperty(Top.generatedTypeName, member.name)),
                             Top.recursionDepth + 1))
    /\ pc' = "call"
    /\ UNCHANGED << program, previous, diagnosticErrors, typeChecker, functionDeclarations, declIndex, context, outputs, stack, result,
                    thrown, derivations >>

\* Only the first error of the type is kept.
AfterPropertyFirstErrorOnly(frame, propertyTypeResult) ==
    IF hasErrors(propertyTypeResult)
    THEN [ frame EXCEPT !.errors = IF @ = << >>
                                   THEN << propertyTypeResult.errors[1] >> ELSE @,
                        !.index = @ + 1 ]
    ELSE [ frame EXCEPT !.warnings = @ \o propertyTypeResult.warnings,
                        !.properties =
                            Append(@, [ propertyName |-> frame.members[frame.index + 1].name,
                                        type |-> propertyTypeResult.typeDefinition ]),
                        !.index = @ + 1 ]

\* The callback's handling of propertyTypeResult
AfterProperty(frame, propertyTypeResult) ==
    LET member == frame.members[frame.index + 1]
    IN  IF hasErrors(propertyTypeResult)
        THEN [ frame EXCEPT !.errors = @ \o propertyTypeResult.errors,
                            !.index = @ + 1 ]
        ELSE [ frame EXCEPT !.warnings = @ \o propertyTypeResult.warnings,
                            !.properties =
                                Append(@, [ propertyName |-> member.name,
                                            type |-> propertyTypeResult.typeDefinition ]),
                            !.index = @ + 1 ]

PropertyReturn ==
    /\ pc = "return"
    /\ Top.frame = "object"
    /\ stack' = ReplaceTop(AfterProperty(Top, result[1]))
    /\ result' = None
    /\ pc' = "object"
    /\ UNCHANGED << program, previous, diagnosticErrors, typeChecker, functionDeclarations, declIndex, context, outputs, call, thrown,
                    derivations >>

\* The properties derived so far are registered although a member failed.
FinishedRegistryPartial(objects, frame) ==
    Assign(objects, frame.generatedTypeName, [properties |-> frame.properties])

\* The registry after all members of the frame's type were derived
FinishedRegistry(objects, frame) ==
    IF Len(frame.errors) = 0
    THEN Assign(objects, frame.generatedTypeName, [properties |-> frame.properties])
    ELSE objects

ObjectResult(frame) ==
    IF Len(frame.errors) = 0
    THEN Derived(NamedType(frame.generatedTypeName, "object"), frame.warnings)
    ELSE Failed(frame.errors)

\* All members are derived: the properties are registered, or the errors
\* returned.
FinishObjectType ==
    /\ pc = "object"
    /\ Top.index = Len(Top.members)
    /\ objectTypeDefinitions' = FinishedRegistry(objectTypeDefinitions, Top)
    /\ ReturnFromFrame(ObjectResult(Top))
    /\ pc' = "return"
    /\ UNCHANGED << program, previous, diagnosticErrors, typeChecker, functionDeclarations, declIndex, scalarTypeDefinitions, outputs,
                    call, thrown >>

(***************************************************************************)
(* The specification: one pass of deriveSchemaFromFunctions.               *)
(***************************************************************************)
Next ==
    \/ ThrowConfigError
    \/ ThrowIfCompilerErrors
    \/ ThrowNoSourceFile
    \/ DeriveSchemaFromFunctions
    \/ EnterFunction
    \/ ThrowNoIdentifier
    \/ ReturnSchema
    \/ DeriveSchemaAgain
    \/ DeriveSchemaReordered
    \/ DeriveParameter
    \/ DeriveReturnType
    \/ ParameterReturn
    \/ ReturnTypeReturn
    \/ DepthExceeded
    \/ UnsupportedForm
    \/ ArrayTypeCall
    \/ ArrayTypeReturn
    \/ ScalarType
    \/ NullableTypeCall
    \/ NullableTypeReturn
    \/ Fallback
    \/ ObjectTypeThrows
    \/ ObjectTypeShortcut
    \/ ObjectTypePlaceholder
    \/ DeriveProperty
    \/ PropertyReturn
    \/ FinishObjectType

Spec == Init /\ [][Next]_vars

\* The pass is sequential code: it keeps running until it returns or throws.
FairSpec == Spec /\ WF_vars(Next)

(***************************************************************************)
(* What the claims speak of.                                               *)
(***************************************************************************)
Range(seq) == { seq[i] : i \in 1..Len(seq) }

PassReturned == pc = "returned"

\* The named type a type definition ends in, under its arrays and nullables.
RECURSIVE NamedOf(_)
NamedOf(typeDefinition) ==
    CASE typeDefinition.type = "named" -> typeDefinition
      [] typeDefinition.type = "array" -> NamedOf(typeDefinition.elementType)
      [] typeDefinition.type = "nullable" -> NamedOf(typeDefinition.underlyingType)

\* The named types the definitions of `functions` mention.
NamedInFunctions(functions) ==
    UNION { { NamedOf(functions[f].resultType) }
            \cup { NamedOf(a.type) : a \in Range(functions[f].arguments) } :
            f \in DOMAIN functions }

\* The named types the registered properties of `named` mention.
NamedInProperties(objects, named) ==
    IF named.kind = "object" /\ named.name \in DOMAIN objects
    THEN { NamedOf(p.type) : p \in Range(objects[named.name].properties) }
    ELSE {}

\* The named types reachable from S through registered properties.
RECURSIVE ReferencedFrom(_, _)
ReferencedFrom(objects, S) ==
    LET more == S \cup UNION { NamedInProperties(objects, n) : n \in S }
    IN  IF more = S THEN S ELSE ReferencedFrom(objects, more)

HasEntry(named) ==
    \/ named.kind = "object" /\ named.name \in DOMAIN objectTypeDefinitions
    \/ named.kind = "scalar" /\ named.name \in DOMAIN scalarTypeDefinitions

RECURSIVE ReachesUnsupported(_, _)
ReachesUnsupported(tsType, visited) ==
    CASE tsType.form = "intrinsic" -> tsType.name = "void"
      [] tsType.form = "reference" ->
            \/ tsType.symbol = "Promise"
            \/ \E i \in 1..Len(tsType.typeArguments) :
                  ReachesUnsupported(tsType.typeArguments[i], visited)
      [] tsType.form = "union" ->
            \E i \in 1..Len(tsType.types) : ReachesUnsupported(tsType.types[i], visited)
      [] tsType.form = "declared" ->
            \/ typeChecker[tsType.id].kind = "Class"
            \/ /\ tsType.id \notin visited
               /\ \E p \in Range(typeChecker[tsType.id].properties) :
                     ReachesUnsupported(p.type, visited \cup {tsType.id})

SignatureReachesUnsupported(declaration) ==
    \/ \E p \in Range(declaration.parameters) : ReachesUnsupported(p.type, {})
    \/ ReachesUnsupported(declaration.returnType, {})

Unusable(name) ==
    /\ name \notin DOMAIN schemaFunctions
    /\ name \in DOMAIN functionIssues
    /\ Len(functionIssues[name]) > 0

(***************************************************************************)
(* C2: when a pass returns, every exported function whose parameter or     *)
(* return type reaches a Promise, class or void type (directly or through  *)
(* array elements, nullable unions or object properties, also through a    *)
(* structured type visited earlier in the pass) has no entry in functions  *)
(* and has a non-empty issue list.                                         *)
(***************************************************************************)
C2_FatalErrorMarksFunctionUnusable ==
    PassReturned =>
        \A i \in 1..Len(functionDeclarations) :
            LET declaration == functionDeclarations[i]
            IN  (declaration.name # None /\ SignatureReachesUnsupported(declaration))
                    => Unusable(declaration.name[1])

(***************************************************************************)
(* The finished derivations of structured types.                           *)
(***************************************************************************)
\* The calls the object branch handled: it expanded the type ("object") or
\* took the already-named shortcut.
ObjectSites ==
    { i \in 1..Len(derivations) : derivations[i].by \in {"object", "shortcut"} }

Expansions == { i \in ObjectSites : derivations[i].by = "object" }

\* The registry name the object branch generated for a finished call
GeneratedName(d) ==
    getObjectTypeInfo(d.tsType, d.typePath, functionsFilePath).value[1].generatedTypeName

LastDerivation == derivations[Len(derivations)]

(***************************************************************************)
(* C3: when the expansion of a structured type returns errors because the  *)
(* derivation of one of its properties failed, the registry holds no entry *)
(* under the name generated for the type.                                  *)
(***************************************************************************)
C3_FailedTypeDiscarded ==
    ( /\ pc = "return"
      /\ derivations # << >>
      /\ LastDerivation.by = "object"
      /\ hasErrors(LastDerivation.result) )
        => GeneratedName(LastDerivation) \notin DOMAIN objectTypeDefinitions

\* The type has a name of its own: an alias, or the symbol of an interface
\* or of an instantiated generic interface.
HasDeclaredName(tsType) ==
    \/ typeChecker[tsType.id].aliasSymbol
    \/ typeChecker[tsType.id].kind \in {"Interface", "Reference"}

DeclaredInEntryFile(tsType) ==
    /\ typeChecker[tsType.id].symbol # None
    /\ typeChecker[tsType.id].symbol[1].declarations = << functionsFilePath >>

\* The call yielded a reference to the registry entry `name`.
YieldsReference(d, name) ==
    /\ ~hasErrors(d.result)
    /\ d.result.typeDefinition = NamedType(name, "object")

\* The registry names generated for tsType at the sites that derived it
NamesOf(tsType) ==
    { GeneratedName(derivations[i]) :
        i \in { k \in ObjectSites : derivations[k].tsType = tsType } }

C5_GeneratedNamesUnique ==
    \A i, j \in ObjectSites :
        GeneratedName(derivations[i]) = GeneratedName(derivations[j])
            => derivations[i].tsType = derivations[j].tsType

(***************************************************************************)
(* Wrappers, read off the types without deriving.                          *)
(***************************************************************************)
IsNullOrUndefined(tsType) ==
    tsType.form = "intrinsic" /\ tsType.name \in {"null", "undefined"}

\* What one array or nullable wrapper wraps: Some(type), or None when
\* tsType is neither T[] nor a union of one type with null or undefined.
Unwrap1(tsType) ==
    IF tsType.form = "reference" /\ tsType.symbol = "Array"
    THEN Some(tsType.typeArguments[1])
    ELSE IF tsType.form = "union"
    THEN LET others == SelectSeq(tsType.types, LAMBDA t : ~IsNullOrUndefined(t))
         IN  IF Len(others) = 1 /\ Len(others) < Len(tsType.types)
             THEN Some(others[1]) ELSE None
    ELSE None

RECURSIVE WrapDepth(_)
WrapDepth(tsType) ==
    IF Unwrap1(tsType) = None THEN 0 ELSE 1 + WrapDepth(Unwrap1(tsType)[1])

RECURSIVE UnwrapTimes(_, _)
UnwrapTimes(tsType, n) ==
    IF n = 0 THEN tsType ELSE UnwrapTimes(Unwrap1(tsType)[1], n - 1)

Unwrapped(tsType) == UnwrapTimes(tsType, WrapDepth(tsType))

\* A property of the type is typed as the type itself, directly or under
\* array and nullable wrappers.
SelfReferential(tsType) ==
    /\ tsType.form = "declared"
    /\ \E p \in Range(typeChecker[tsType.id].properties) : Unwrapped(p.type) = tsType

ObjectFrames == { k \in 1..Len(stack) : stack[k].frame = "object" }

\* A self-referential type without unsupported parts is being expanded.
ExpandingSelfReferential ==
    \E k \in ObjectFrames :
        /\ SelfReferential(stack[k].tsType)
        /\ ~ReachesUnsupported(stack[k].tsType, {})

\* The registered properties under `name` refer to `name`.
RefersToItself(name) ==
    \E p \in Range(objectTypeDefinitions[name].properties) :
        NamedOf(p.type) = NamedType(name, "object")

\* The placeholder is in the registry while the properties are derived, a
\* reference to a type under expansion takes the shortcut, and a finished
\* expansion of a self-referential type succeeded with its one entry.
SelfReferenceResolved ==
    /\ \A k \in ObjectFrames : stack[k].generatedTypeName \in DOMAIN objectTypeDefinitions
    /\ (pc = "return" /\ derivations # << >>) =>
            \A k \in ObjectFrames :
                stack[k].tsType = LastDerivation.tsType
                    => /\ LastDerivation.by = "shortcut"
                       /\ YieldsReference(LastDerivation, stack[k].generatedTypeName)
    /\ \A i \in Expansions :
            LET d == derivations[i]
            IN  (SelfReferential(d.tsType) /\ ~ReachesUnsupported(d.tsType, {}))
                    => /\ YieldsReference(d, GeneratedName(d))
                       /\ RefersToItself(GeneratedName(d))
                       /\ NamesOf(d.tsType) \cap DOMAIN objectTypeDefinitions
                              = { GeneratedName(d) }
                       /\ \A j \in Expansions : derivations[j].tsType = d.tsType => j = i

RootType ==
    IF stack[1].returning THEN stack[1].functionDeclaration.returnType
    ELSE stack[1].functionDeclaration.parameters[stack[1].paramIndex + 1].type

DepthMessage(tsType) ==
    "Schema inference validation exceeded depth 20 for type " \o typeToString(tsType)

\* Arrays and nullable unions around a scalar, and nothing else
WrappedScalar(tsType) ==
    LET inner == Unwrapped(tsType)
    IN  inner.form = "intrinsic" /\ inner.name \in {"boolean", "string", "number"}

SignatureTypes(declaration) ==
    { p.type : p \in Range(declaration.parameters) } \cup { declaration.returnType }

(***************************************************************************)
(* C7: a type nested beyond 20 levels of array / nullable wrapping makes   *)
(* the derivation fail with the depth-exceeded error: no call deeper than  *)
(* 20 ever returns, the pass throws the error at level 21 and the function *)
(* is never filed.  A type nested 20 levels or fewer is not rejected for   *)
(* depth: its function is derived.                                         *)
(***************************************************************************)
C7_DepthCeiling ==
    /\ \A i \in 1..Len(derivations) :
          derivations[i].recursionDepth <= MAX_TYPE_DERIVATION_RECURSION
    /\ (pc = "call" /\ WrapDepth(RootType) <= MAX_TYPE_DERIVATION_RECURSION
                    /\ WrappedScalar(RootType))
          => call[1].recursionDepth <= MAX_TYPE_DERIVATION_RECURSION
    /\ (pc = "thrown" /\ stack # << >>) =>
          /\ (WrapDepth(RootType) > MAX_TYPE_DERIVATION_RECURSION)
                => thrown = Some(DepthMessage(
                                UnwrapTimes(RootType, MAX_TYPE_DERIVATION_RECURSION + 1)))
          /\ (call # None /\ thrown = Some(DepthMessage(call[1].tsType)))
                => /\ WrapDepth(RootType) > MAX_TYPE_DERIVATION_RECURSION
                   /\ call[1].recursionDepth = MAX_TYPE_DERIVATION_RECURSION + 1
    /\ \A i \in 1..Len(functionDeclarations) :
          LET declaration == functionDeclarations[i]
          IN  /\ (\E t \in SignatureTypes(declaration) :
                      WrapDepth(t) > MAX_TYPE_DERIVATION_RECURSION)
                    => /\ declIndex < i
                       /\ ~PassReturned
              /\ ( /\ i <= declIndex
                   /\ \A t \in SignatureTypes(declaration) :
                         /\ WrappedScalar(t)
                         /\ WrapDepth(t) <= MAX_TYPE_DERIVATION_RECURSION )
                    => declaration.name[1] \in DOMAIN schemaFunctions

\* The pass threw the depth error at level 21 of a parameter, after a
\* function with a parameter nested exactly 20 levels was derived.
C7_Witness ==
    /\ pc = "thrown"
    /\ stack # << >>
    /\ WrapDepth(RootType) > MAX_TYPE_DERIVATION_RECURSION
    /\ thrown = Some(DepthMessage(call[1].tsType))
    /\ \E i \in 1..declIndex :
          /\ \E t \in SignatureTypes(functionDeclarations[i]) :
                WrapDepth(t) = MAX_TYPE_DERIVATION_RECURSION
          /\ functionDeclarations[i].name[1] \in DOMAIN schemaFunctions

(***************************************************************************)
(* How a pass ends.                                                        *)
(***************************************************************************)
PassEnded == pc \in {"returned", "thrown"}

\* Every declaration was derived: each function is filed or has issues.
SchemaReturned ==
    /\ thrown = None
    /\ declIndex = Len(functionDeclarations)
    /\ stack = << >>
    /\ \A i \in 1..Len(functionDeclarations) :
          functionDeclarations[i].name[1]
              \in DOMAIN schemaFunctions \cup DOMAIN functionIssues

\* The file that declares the symbol naming a declared type: its own
\* symbol, or that of an intersection's first constituent.
NamingSymbol(tsType) ==
    IF typeChecker[tsType.id].symbol # None THEN typeChecker[tsType.id].symbol
    ELSE IF typeChecker[tsType.id].firstConstituent # None
            /\ typeChecker[tsType.id].firstConstituent[1].form = "declared"
    THEN typeChecker[typeChecker[tsType.id].firstConstituent[1].id].symbol
    ELSE None

\* The file lies outside the entry file's directory and is no .ts file.
ForeignFile(file) ==
    /\ Occurrences(file, dirname(functionsFilePath) \o <<"/">>) = {}
    /\ SubSeq(file, Len(file) - 2, Len(file)) # << ".", "t", "s" >>

\* The Error that ended the pass is the depth-exceeded error.
DepthErrorThrown ==
    /\ call # None
    /\ call[1].recursionDepth > MAX_TYPE_DERIVATION_RECURSION
    /\ thrown = Some(DepthMessage(call[1].tsType))

\* deriveSchema threw before the pass: the configuration could not be read,
\* the source does not compile, or the entry file is no source file.
DeriveSchemaThrown ==
    \/ /\ program.configFileError # None
       /\ thrown = Some("Error loading TypeScript compiler configuration (tsconfig.json)")
    \/ /\ program.configFileError = None
       /\ program.diagnostics # << >>
       /\ thrown = Some("Compiler errors")
    \/ /\ program.configFileError = None
       /\ program.diagnostics = << >>
       /\ ~program.sourceFile
       /\ thrown = Some("'/p/f.ts' not returned as a TypeScript compiler source file")

\* The Error that ended the pass came from a precondition on the input:
\* a source that could not be loaded or compiled, an exported function
\* without identifier, or a structured type whose naming symbol or
\* supported location could not be found.
PreconditionErrorThrown ==
    \/ DeriveSchemaThrown
    \/ /\ stack = << >>
       /\ declIndex < Len(functionDeclarations)
       /\ functionDeclarations[declIndex + 1].name = None
       /\ thrown = Some("Function didn't have an identifier")
    \/ /\ call # None
       /\ call[1].tsType.form = "declared"
       /\ NamingSymbol(call[1].tsType) = None
       /\ thrown = Some("Couldn't find symbol for type at "
                            \o typePathToString(call[1].typePath))
    \/ /\ call # None
       /\ call[1].tsType.form = "declared"
       /\ NamingSymbol(call[1].tsType) # None
       /\ ForeignFile(NamingSymbol(call[1].tsType)[1].declarations[1])
       /\ thrown = Some("Unsupported location for type "
                            \o (IF typeChecker[call[1].tsType.id].aliasSymbol
                                THEN typeToString(call[1].tsType)
                                ELSE generateTypeNameFromTypePath(call[1].typePath))
                            \o " in "
                            \o Str(NamingSymbol(call[1].tsType)[1].declarations[1]))

ExpandedOncePerType ==
    \A i, j \in Expansions : derivations[i].tsType = derivations[j].tsType => i = j

ExpandedOncePerName ==
    \A i, j \in Expansions :
        GeneratedName(derivations[i]) = GeneratedName(derivations[j]) => i = j

(***************************************************************************)
(* C8 as stated: every pass terminates, it either returns a schema or      *)
(* raises the depth-exceeded error, and the properties of each structured  *)
(* type are expanded at most once per pass.                                *)
(***************************************************************************)
C8_ReturnsOrDepthError ==
    /\ <>PassEnded
    /\ [](pc = "returned" => SchemaReturned)
    /\ [](pc = "thrown" => DepthErrorThrown)
    /\ []ExpandedOncePerType

(***************************************************************************)
(* C8 amended: every pass terminates; it returns a schema, or raises the   *)
(* depth-exceeded error, or raises a precondition Error (source that could *)
(* not be loaded or compiled, function without identifier, type without    *)
(* naming symbol, type declared at an unsupported location); the           *)
(* properties of a structured type are expanded at most once per generated *)
(* registry name.                                                          *)
(***************************************************************************)
C8_PassTerminates ==
    /\ []<>PassEnded
    /\ [](pc = "returned" => SchemaReturned)
    /\ [](pc = "thrown" => (DepthErrorThrown \/ PreconditionErrorThrown))
    /\ []ExpandedOncePerName

\* A pass returned after deriving two structured types that refer to each
\* other through their properties, each expanded once.
C8_Witness ==
    /\ PassReturned
    /\ \E i, j \in Expansions :
          /\ derivations[i].tsType # derivations[j].tsType
          /\ NamedType(GeneratedName(derivations[j]), "object")
                \in NamedInProperties(objectTypeDefinitions,
                                      NamedType(GeneratedName(derivations[i]), "object"))
          /\ NamedType(GeneratedName(derivations[i]), "object")
                \in NamedInProperties(objectTypeDefinitions,
                                      NamedType(GeneratedName(derivations[j]), "object"))

(***************************************************************************)
(* What was collected for a function.                                      *)
(***************************************************************************)
\* The finished calls deriveFunctionSchema made for the function: one per
\* parameter and one for the return type, in order
RootDerivations(name) ==
    SelectSeq(derivations,
              LAMBDA d : /\ d.recursionDepth = 0
                         /\ Len(d.typePath) = 1
                         /\ d.typePath[1].functionName = name)

RECURSIVE AllErrors(_)
AllErrors(results) ==
    IF results = << >> THEN << >>
    ELSE (IF hasErrors(Head(results).result) THEN Head(results).result.errors ELSE << >>)
            \o AllErrors(Tail(results))

\* The finished calls for the parameters and the return type of the i-th
\* declaration.  An overloaded function has several declarations.
DeclarationDerivations(i) ==
    SelectSeq(derivations,
              LAMBDA d : /\ d.recursionDepth = 0
                         /\ Len(d.typePath) = 1
                         /\ d.declaration = i)

BrokenDeclaration(i) ==
    \E d \in Range(DeclarationDerivations(i)) : hasErrors(d.result)

\* The declarations of the function `name` that the loop is done with
DeclarationsDone(name) ==
    { j \in 1..declIndex : functionDeclarations[j].name = Some(name) }

IsPromise(tsType) == tsType.form = "reference" /\ tsType.symbol = "Promise"

PromiseIssue(functionName, parameterName) ==
    "Promise types are not supported, but one was encountered in function '"
        \o functionName \o "' parameter '" \o parameterName \o "'."

(***************************************************************************)
(* C9: a function for which the derivation of a parameter type or of the   *)
(* return type returned errors has no entry in functions, and its name     *)
(* maps in the issue report to the non-empty list of all errors collected  *)
(* for it; a function with a parameter typed as Promise has no entry in    *)
(* functions and an issue naming that function parameter and Promise.      *)
(***************************************************************************)
C9_BrokenFunctionReported ==
    \A i \in 1..declIndex :
        LET declaration == functionDeclarations[i]
            name == declaration.name[1]
        IN  /\ BrokenDeclaration(i)
                => /\ name \in DOMAIN schemaFunctions
                        => \E j \in DeclarationsDone(name) : ~BrokenDeclaration(j)
                   /\ name \in DOMAIN functionIssues
                   /\ (\A j \in DeclarationsDone(name) : j > i => ~BrokenDeclaration(j))
                        => functionIssues[name] = AllErrors(DeclarationDerivations(i))
                   /\ Len(functionIssues[name]) > 0
            /\ \A p \in Range(declaration.parameters) :
                  IsPromise(p.type)
                    => /\ name \notin DOMAIN schemaFunctions
                       /\ name \in DOMAIN functionIssues
                       /\ PromiseIssue(name, p.name) \in Range(functionIssues[name])

\* A pass filed the issues of a function whose only problem is a parameter
\* typed as Promise, and whose return type was derived.
C9_Witness ==
    \E i \in 1..declIndex :
        LET declaration == functionDeclarations[i]
            name == declaration.name[1]
        IN  /\ \E p \in Range(declaration.parameters) : IsPromise(p.type)
            /\ BrokenDeclaration(i)
            /\ ~hasErrors(DeclarationDerivations(i)[Len(DeclarationDerivations(i))].result)
            /\ name \notin DOMAIN schemaFunctions
            /\ Len(functionIssues[name]) = 1

(***************************************************************************)
(* Unsupported forms, read off the types.                                  *)
(***************************************************************************)
IsClass(tsType) == tsType.form = "declared" /\ typeChecker[tsType.id].kind = "Class"

IsVoid(tsType) == tsType.form = "intrinsic" /\ tsType.name = "void"

DirectlyUnsupported(tsType) == IsPromise(tsType) \/ IsClass(tsType) \/ IsVoid(tsType)

\* The error reported for an unsupported type found at `place`
UnsupportedIssue(tsType, place) ==
    IF IsPromise(tsType)
    THEN "Promise types are not supported, but one was encountered in " \o place \o "."
    ELSE IF IsClass(tsType)
    THEN "Class types are not supported, but one was encountered in " \o place
    ELSE "The void type is not supported, but one was encountered in " \o place

ParameterPlace(functionName, parameterName) ==
    "function '" \o functionName \o "' parameter '" \o parameterName \o "'"

ReturnPlace(functionName) == "function '" \o functionName \o "' return value"

PropertyPlace(d, propertyName) ==
    typePathToString(d.typePath) \o ", type '" \o GeneratedName(d)
        \o "' property '" \o propertyName \o "'"

\* The finished calls the expansion d made for its properties
PropertyDerivations(d) ==
    SelectSeq(derivations,
              LAMBDA e : /\ e.recursionDepth = d.recursionDepth + 1
                         /\ Len(e.typePath) = Len(d.typePath) + 1
                         /\ SubSeq(e.typePath, 1, Len(d.typePath)) = d.typePath
                         /\ e.typePath[Len(e.typePath)].segmentType = "ObjectProperty")

(***************************************************************************)
(* C10: the issue list of a function holds the errors of every failing     *)
(* parameter and of a failing return type, and the errors a failing        *)
(* structured type returns are those of every one of its failing           *)
(* properties, not just the first.                                         *)
(***************************************************************************)
C10_AllErrorsReported ==
    /\ \A i \in 1..declIndex :
          LET declaration == functionDeclarations[i]
              name == declaration.name[1]
          IN  /\ \A d \in Range(RootDerivations(name)) :
                    hasErrors(d.result)
                        => \A e \in Range(d.result.errors) :
                              e \in Range(functionIssues[name])
              /\ \A p \in Range(declaration.parameters) :
                    DirectlyUnsupported(p.type)
                        => UnsupportedIssue(p.type, ParameterPlace(name, p.name))
                              \in Range(functionIssues[name])
              /\ DirectlyUnsupported(declaration.returnType)
                    => UnsupportedIssue(declaration.returnType, ReturnPlace(name))
                          \in Range(functionIssues[name])
    /\ \A i \in Expansions :
          LET d == derivations[i]
          IN  /\ hasErrors(d.result)
                    => d.result.errors = AllErrors(PropertyDerivations(d))
              /\ \A p \in Range(typeChecker[d.tsType.id].properties) :
                    DirectlyUnsupported(p.type)
                        => /\ hasErrors(d.result)
                           /\ UnsupportedIssue(p.type, PropertyPlace(d, p.name))
                                 \in Range(d.result.errors)

\* A pass filed one function with the errors of two failing parameters and
\* of its failing return type, and another with those of two failing
\* properties of one structured type.
C10_Witness ==
    /\ \E i \in 1..declIndex :
          LET name == functionDeclarations[i].name[1]
              failing == SelectSeq(RootDerivations(name), LAMBDA d : hasErrors(d.result))
          IN  /\ name \in DOMAIN functionIssues
              /\ Len(failing) = 3
              /\ Len(functionIssues[name]) = 3
              /\ hasErrors(RootDerivations(name)[Len(RootDerivations(name))].result)
    /\ \E i \in 1..declIndex :
          LET name == functionDeclarations[i].name[1]
              failing == SelectSeq(RootDerivations(name), LAMBDA d : hasErrors(d.result))
          IN  /\ name \in DOMAIN functionIssues
              /\ Len(failing) = 1
              /\ failing[1].by = "object"
              /\ Len(functionIssues[name]) = 2

(***************************************************************************)
(* Where types are declared, read off the declarations.                    *)
(***************************************************************************)
\* The file does not lie under the directory containing the entry file.
OutsideEntryDirectory(file) ==
    LET dir == dirname(functionsFilePath) \o <<"/">>
    IN  ~(Len(file) > Len(dir) /\ SubSeq(file, 1, Len(dir)) = dir)

\* tsType is a structured type declared outside the entry file's directory,
\* or contains one under array elements, union members or properties.
RECURSIVE ReachesOutside(_, _)
ReachesOutside(tsType, visited) ==
    CASE tsType.form = "intrinsic" -> FALSE
      [] tsType.form = "reference" ->
            \E i \in 1..Len(tsType.typeArguments) :
                ReachesOutside(tsType.typeArguments[i], visited)
      [] tsType.form = "union" ->
            \E i \in 1..Len(tsType.types) : ReachesOutside(tsType.types[i], visited)
      [] tsType.form = "declared" ->
            \/ /\ NamingSymbol(tsType) # None
               /\ OutsideEntryDirectory(NamingSymbol(tsType)[1].declarations[1])
            \/ /\ tsType.id \notin visited
               /\ \E p \in Range(typeChecker[tsType.id].properties) :
                     ReachesOutside(p.type, visited \cup {tsType.id})

SignatureReachesOutside(declaration) ==
    \E t \in SignatureTypes(declaration) : ReachesOutside(t, {})

UnsupportedLocationThrown ==
    /\ pc = "thrown"
    /\ call # None
    /\ call[1].tsType.form = "declared"
    /\ thrown = Some("Unsupported location for type "
                        \o (IF typeChecker[call[1].tsType.id].aliasSymbol
                            THEN typeToString(call[1].tsType)
                            ELSE generateTypeNameFromTypePath(call[1].typePath))
                        \o " in "
                        \o Str(NamingSymbol(call[1].tsType)[1].declarations[1]))

(***************************************************************************)
(* C11: a structured type declared outside the directory of the entry file *)
(* is a fatal per-type error: the pass is never ended by the "Unsupported  *)
(* location" Error, and every function the loop is done with whose         *)
(* signature references such a type is broken (no entry in functions, a    *)
(* non-empty issue list) while the other functions are derived.            *)
(***************************************************************************)
C11_OutsideTypeBreaksFunctionOnly ==
    /\ ~UnsupportedLocationThrown
    /\ \A i \in 1..declIndex :
          LET declaration == functionDeclarations[i]
          IN  SignatureReachesOutside(declaration) => Unusable(declaration.name[1])

(***************************************************************************)
(* Precondition failures of deriveSchema.                                  *)
(***************************************************************************)
\* The entry file has compile diagnostics, or is not a source file of the
\* created program.
PreconditionFails ==
    /\ program.configFileError = None
    /\ program.diagnostics # << >> \/ ~program.sourceFile

\* Nothing of a pass exists: no derivation step ran, the registries and
\* the outputs are empty and no schema was returned.
NothingDerived ==
    /\ pc \in {"deriveSchema", "thrown"}
    /\ declIndex = 0
    /\ stack = << >>
    /\ call = None
    /\ result = None
    /\ derivations = << >>
    /\ objectTypeDefinitions = EmptyObject
    /\ scalarTypeDefinitions = EmptyObject
    /\ schemaFunctions = EmptyObject
    /\ functionIssues = EmptyObject

\* What deriveSchema surfaces for the failed precondition: the TsError with
\* every diagnostic, or the Error naming the entry file.
FailureSurfaced ==
    IF program.diagnostics # << >>
    THEN /\ thrown = Some("Compiler errors")
         /\ diagnosticErrors = program.diagnostics
    ELSE /\ thrown = Some("'/p/f.ts' not returned as a TypeScript compiler source file")
         /\ diagnosticErrors = << >>

(***************************************************************************)
(* C12: when the entry file has compile diagnostics or is not located, the *)
(* pass aborts before any function is derived: the only step deriveSchema  *)
(* takes is the throw, no derivation step runs, no registry entry is       *)
(* created, no schema is returned, and the thrown error carries the full   *)
(* diagnostic list.                                                        *)
(***************************************************************************)
C12_AbortsBeforeDerivation ==
    /\ [](PreconditionFails =>
            /\ NothingDerived
            /\ pc = "thrown" => FailureSurfaced)
    /\ [][PreconditionFails => pc' = "thrown"]_vars

\* deriveSchema threw the two diagnostics of a source file that exports
\* functions.
C12_Witness ==
    /\ pc = "thrown"
    /\ PreconditionFails
    /\ Len(diagnosticErrors) = 2
    /\ Len(functionDeclarations) = MaxFunctions

(***************************************************************************)
(* Two passes over the same source.                                        *)
(***************************************************************************)
\* The FunctionsSchema part of what a pass returns
FunctionsSchema(returned) ==
    [ functions |-> returned.functions,
      objectTypes |-> returned.objectTypes,
      scalarTypes |-> returned.scalarTypes ]

\* The registry names the running pass has registered itself
RegisteredInThisPass ==
    { GeneratedName(derivations[i]) : i \in Expansions }
        \cup { stack[k].generatedTypeName : k \in ObjectFrames }

\* This is the second pass over the unchanged source.
SameSourceAgain ==
    /\ previous # None
    /\ previous[1].functionDeclarations = functionDeclarations

\* A pass starts without registry entries, and whatever it finds in the
\* registries it has put there itself.
RegistryIsPassScoped ==
    /\ (pc = "loop" /\ declIndex = 0) =>
            /\ objectTypeDefinitions = EmptyObject
            /\ scalarTypeDefinitions = EmptyObject
    /\ pc \notin {"deriveSchema", "returned", "thrown"} =>
            /\ DOMAIN objectTypeDefinitions = RegisteredInThisPass
            /\ \A i \in ObjectSites :
                  derivations[i].by = "shortcut"
                      => GeneratedName(derivations[i]) \in RegisteredInThisPass
            /\ DOMAIN scalarTypeDefinitions =
                  { derivations[i].result.typeDefinition.name :
                      i \in { k \in 1..Len(derivations) : derivations[k].by = "scalar" } }

(***************************************************************************)
(* C13: a second pass over the same source with the same type checker      *)
(* returns a FunctionsSchema equal to that of the first pass (functions,   *)
(* objectTypes and scalarTypes); each pass starts from empty registries    *)
(* and sees nothing that an earlier pass registered.                       *)
(***************************************************************************)
C13_Idempotent ==
    /\ RegistryIsPassScoped
    /\ (PassReturned /\ SameSourceAgain)
          => FunctionsSchema(ReturnedSchema) = FunctionsSchema(previous[1].returned)

\* A second pass returned a schema with usable and broken functions, a
\* structured type and scalars.
C13_Witness ==
    /\ PassReturned
    /\ SameSourceAgain
    /\ DOMAIN schemaFunctions # {}
    /\ DOMAIN functionIssues # {}
    /\ \E name \in DOMAIN objectTypeDefinitions :
          objectTypeDefinitions[name].properties # << >>
    /\ scalarTypeDefinitions # EmptyObject

(***************************************************************************)
(* The type definitions a pass has produced.                               *)
(***************************************************************************)
\* No nullable in the type definition wraps a nullable directly.
RECURSIVE NoNullableOfNullable(_)
NoNullableOfNullable(typeDefinition) ==
    CASE typeDefinition.type = "named" -> TRUE
      [] typeDefinition.type = "array" -> NoNullableOfNullable(typeDefinition.elementType)
      [] typeDefinition.type = "nullable" ->
            /\ typeDefinition.underlyingType.type # "nullable"
            /\ NoNullableOfNullable(typeDefinition.underlyingType)

\* The type definitions of function arguments, function results and
\* registered properties, and those the finished calls returned
ProducedTypeDefinitions ==
    UNION { { schemaFunctions[f].resultType }
            \cup { a.type : a \in Range(schemaFunctions[f].arguments) } :
            f \in DOMAIN schemaFunctions }
    \cup UNION { { p.type : p \in Range(objectTypeDefinitions[n].properties) } :
                 n \in DOMAIN objectTypeDefinitions }
    \cup { derivations[i].result.typeDefinition :
             i \in { k \in 1..Len(derivations) : ~hasErrors(derivations[k].result) } }

(***************************************************************************)
(* C14: in every type definition produced by derivation (function          *)
(* arguments, result types, registered property types), a Nullable never   *)
(* directly wraps another Nullable.                                        *)
(***************************************************************************)
C14_NoNullableOfNullable ==
    \A typeDefinition \in ProducedTypeDefinitions : NoNullableOfNullable(typeDefinition)

\* A returned pass produced a result type from a union with both null and
\* undefined, and an argument type with a nullable under an array under a
\* nullable.
C14_Witness ==
    /\ PassReturned
    /\ \E f \in DOMAIN schemaFunctions :
          /\ schemaFunctions[f].resultType.type = "nullable"
          /\ schemaFunctions[f].resultType.nullOrUndefinability = "AcceptsEither"
    /\ \E f \in DOMAIN schemaFunctions :
          \E a \in Range(schemaFunctions[f].arguments) :
              /\ a.type.type = "nullable"
              /\ a.type.underlyingType.type = "array"
              /\ a.type.underlyingType.elementType.type = "nullable"

(***************************************************************************)
(* Names synthesized from type paths.                                      *)
(***************************************************************************)
\* The name of one type-path segment: <functionName>_arguments_<paramName>,
\* <functionName>_output, field_<propertyName> or array
SegmentName(segment) ==
    CASE segment.segmentType = "FunctionParameter" ->
            segment.functionName \o "_arguments_" \o segment.parameterName
      [] segment.segmentType = "FunctionReturn" -> segment.functionName \o "_output"
      [] segment.segmentType = "ObjectProperty" -> "field_" \o segment.propertyName
      [] segment.segmentType = "Array" -> "array"

\* The segment names joined with underscores
PathName(typePath) ==
    Join([ i \in 1..Len(typePath) |-> SegmentName(typePath[i]) ], "_")

\* The calls of the object branch for types without a name of their own,
\* declared in the entry file
UnnamedSites ==
    { i \in ObjectSites :
        /\ ~HasDeclaredName(derivations[i].tsType)
        /\ DeclaredInEntryFile(derivations[i].tsType) }

(***************************************************************************)
(* C15: the name generated for a structured type with no declared or       *)
(* alias name is the underscore-joined concatenation of its type-path      *)
(* segments: <functionName>_arguments_<paramName> for a parameter,         *)
(* <functionName>_output for a return value, field_<propertyName> for a    *)
(* property and array for an array element.                                *)
(***************************************************************************)
C15_NameFromTypePath ==
    \A i \in UnnamedSites :
        GeneratedName(derivations[i]) = PathName(derivations[i].typePath)

(***************************************************************************)
(* Inline record shapes with scalar properties, read off the declarations. *)
(***************************************************************************)
\* The scalar name of boolean, string or number: Some(name), else None
ScalarOf(tsType) ==
    IF tsType.form # "intrinsic" THEN None
    ELSE IF tsType.name = "boolean" THEN Some("Boolean")
    ELSE IF tsType.name = "string" THEN Some("String")
    ELSE IF tsType.name = "number" THEN Some("Float")
    ELSE None

\* The scalar that a union joins with null and / or undefined: Some(name),
\* else None.  boolean appears in a union as its members false and true.
NullableScalarOf(tsType) ==
    IF tsType.form # "union" THEN None
    ELSE LET others == SelectSeq(tsType.types, LAMBDA t : ~IsNullOrUndefined(t))
         IN  IF Len(others) = Len(tsType.types) THEN None
             ELSE IF Len(others) = 1 THEN ScalarOf(others[1])
             ELSE IF Range(others) = {FalseT, TrueT} THEN Some("Boolean")
             ELSE None

\* null-only, undefined-only or either, by the markers in the union
AcceptanceOf(tsType) ==
    LET hasNull == \E t \in Range(tsType.types) : t = NullT
        hasUndefined == \E t \in Range(tsType.types) : t = UndefinedT
    IN  IF hasNull /\ hasUndefined THEN "AcceptsEither"
        ELSE IF hasNull THEN "AcceptsNullOnly"
        ELSE "AcceptsUndefinedOnly"

\* An object type written inline, all of whose properties are scalars or
\* nullable scalars
InlineScalarRecord(tsType) ==
    /\ tsType.form = "declared"
    /\ typeChecker[tsType.id].kind = "Anonymous"
    /\ ~HasDeclaredName(tsType)
    /\ DeclaredInEntryFile(tsType)
    /\ typeChecker[tsType.id].properties # << >>
    /\ \A p \in Range(typeChecker[tsType.id].properties) :
          ScalarOf(p.type) # None \/ NullableScalarOf(p.type) # None

\* The property list the record is to be registered with
ScalarRecordProperties(tsType) ==
    [ i \in 1..Len(typeChecker[tsType.id].properties) |->
        LET p == typeChecker[tsType.id].properties[i]
        IN  [ propertyName |-> p.name,
              type |-> IF ScalarOf(p.type) # None
                       THEN NamedType(ScalarOf(p.type)[1], "scalar")
                       ELSE NullableType(NamedType(NullableScalarOf(p.type)[1], "scalar"),
                                         AcceptanceOf(p.type)) ] ]

\* The function derived one argument that references a registered object
\* type with the properties of tsType.
DerivesOneRecordArgument(name, tsType) ==
    /\ name \in DOMAIN schemaFunctions
    /\ Len(schemaFunctions[name].arguments) = 1
    /\ LET type == schemaFunctions[name].arguments[1].type
       IN  /\ type.type = "named"
           /\ type.kind = "object"
           /\ type.name \in DOMAIN objectTypeDefinitions
           /\ objectTypeDefinitions[type.name].properties = ScalarRecordProperties(tsType)

(***************************************************************************)
(* C16: a function with one parameter of an inline record shape whose      *)
(* properties are scalars or nullable scalars, and a scalar return type,   *)
(* derives exactly one argument whose type is a Named object reference to  *)
(* a generated name, registered with the properties in declaration order   *)
(* and their derived types (for {a: number, b: string | null}:             *)
(* a: Named(Float, scalar), b: Nullable(Named(String, scalar), null-only)).*)
(***************************************************************************)
C16_InlineRecordParameter ==
    \A i \in 1..declIndex :
        LET declaration == functionDeclarations[i]
        IN  ( /\ Len(declaration.parameters) = 1
              /\ InlineScalarRecord(declaration.parameters[1].type)
              /\ ScalarOf(declaration.returnType) # None )
                => DerivesOneRecordArgument(declaration.name[1],
                                            declaration.parameters[1].type)

(***************************************************************************)
(* The derivation of a scalar as one step.                                 *)
(***************************************************************************)
\* The call about to run is for boolean, string or number, within the
\* depth ceiling.
ScalarCall ==
    /\ pc = "call"
    /\ ScalarOf(call[1].tsType) # None
    /\ call[1].recursionDepth <= MAX_TYPE_DERIVATION_RECURSION

\* The step returned Named(name, scalar) without warnings, registered name
\* with no properties, and left every other registry entry, the object
\* types, the functions and the issues as they were.
ScalarDerived(name) ==
    /\ pc' = "return"
    /\ result' = Some(Derived(NamedType(name, "scalar"), << >>))
    /\ DOMAIN scalarTypeDefinitions' = DOMAIN scalarTypeDefinitions \cup {name}
    /\ scalarTypeDefinitions'[name] = EmptyObject
    /\ \A other \in DOMAIN scalarTypeDefinitions \ {name} :
          scalarTypeDefinitions'[other] = scalarTypeDefinitions[other]
    /\ objectTypeDefinitions' = objectTypeDefinitions
    /\ UNCHANGED << outputs, stack >>

(***************************************************************************)
(* C17: the derivation of boolean, string or number succeeds with no       *)
(* warnings and registers exactly the fixed name (Boolean, String, Float)  *)
(* in scalarTypes with no properties, leaving objectTypes and every other  *)
(* scalarTypes entry unchanged.                                            *)
(***************************************************************************)
C17_ScalarRegistered ==
    [][ScalarCall => ScalarDerived(ScalarOf(call[1].tsType)[1])]_vars

\* Boolean was just derived and registered next to String and Float, with
\* an object type in the registry.
C17_Witness ==
    /\ pc = "return"
    /\ derivations # << >>
    /\ LastDerivation.by = "scalar"
    /\ result = Some(Derived(NamedType("Boolean", "scalar"), << >>))
    /\ DOMAIN scalarTypeDefinitions = {"Boolean", "String", "Float"}
    /\ \E name \in DOMAIN objectTypeDefinitions :
          objectTypeDefinitions[name].properties # << >>

(***************************************************************************)
(* The form of a type, read off the type itself.                           *)
(***************************************************************************)
\* The first of the forms, in the order Promise, class, void, array,
\* scalar, nullable union, structured object, that the type has
FormOf(tsType) ==
    IF IsPromise(tsType) THEN "promise"
    ELSE IF IsClass(tsType) THEN "class"
    ELSE IF IsVoid(tsType) THEN "void"
    ELSE IF tsType.form = "reference" /\ tsType.symbol = "Array" THEN "array"
    ELSE IF ScalarOf(tsType) # None THEN "scalar"
    ELSE IF tsType.form = "union" /\ Unwrap1(tsType) # None THEN "nullable"
    ELSE IF tsType.form = "declared" THEN "object"
    ELSE "fallback"

\* The finished call was handled as the form of its type demands.
HandledAs(d, form) ==
    CASE form \in {"promise", "class", "void"} ->
            /\ d.by = form
            /\ d.result = Failed(<< UnsupportedIssue(d.tsType, typePathToString(d.typePath)) >>)
      [] form = "array" ->
            /\ d.by = "array"
            /\ hasErrors(d.result) \/ d.result.typeDefinition.type = "array"
      [] form = "scalar" ->
            /\ d.by = "scalar"
            /\ d.result = Derived(NamedType(ScalarOf(d.tsType)[1], "scalar"), << >>)
      [] form = "nullable" ->
            /\ d.by = "nullable"
            /\ hasErrors(d.result) \/ d.result.typeDefinition.type = "nullable"
      [] form = "object" ->
            /\ d.by \in {"object", "shortcut"}
            /\ hasErrors(d.result)
                  \/ d.result.typeDefinition = NamedType(GeneratedName(d), "object")
      [] form = "fallback" ->
            /\ d.by = "fallback"
            /\ d.result = Failed(<< "fallback" >>)

ClassifiedInOrder ==
    \A i \in 1..Len(derivations) :
        HandledAs(derivations[i], FormOf(derivations[i].tsType))

\* The call about to run is for a type that is an error by its form.
ErrorFormCall ==
    /\ pc = "call"
    /\ call[1].recursionDepth <= MAX_TYPE_DERIVATION_RECURSION
    /\ FormOf(call[1].tsType) \in {"promise", "class", "void", "fallback"}

(***************************************************************************)
(* C18: classification is an ordered first-match dispatch: a Promise,      *)
(* class or void type returns its fatal error at once, without touching    *)
(* the registry; any other type is handled by the first matching form in   *)
(* the order array, scalar, nullable union, structured object; a type      *)
(* matching none returns the fallback fatal error.                         *)
(***************************************************************************)
C18_OrderedDispatch ==
    /\ []ClassifiedInOrder
    /\ [][ErrorFormCall =>
            /\ pc' = "return"
            /\ result' # None
            /\ hasErrors(result'[1])
            /\ UNCHANGED << context, outputs, stack >>]_vars

\* A pass returned after calls for a Promise, a class, void, an array, a
\* scalar, a nullable union, a structured object and a type of no form.
C18_Witness ==
    /\ PassReturned
    /\ { derivations[i].by : i \in 1..Len(derivations) }
          = { "promise", "class", "void", "array", "scalar", "nullable", "object",
              "fallback" }

(***************************************************************************)
(* Unions, read off their members.                                         *)
(***************************************************************************)
\* The members of the union that are neither null nor undefined
OtherMembers(tsType) == SelectSeq(tsType.types, LAMBDA t : ~IsNullOrUndefined(t))

\* Exactly one member besides null and undefined, and one of those present
IsNullableWrapper(tsType) ==
    /\ tsType.form = "union"
    /\ Len(OtherMembers(tsType)) = 1
    /\ Len(OtherMembers(tsType)) < Len(tsType.types)

\* The finished call for a union wrapped its one other member with the
\* acceptance flag of its markers, or was not handled as a nullable at all.
UnionHandled(d) ==
    IF IsNullableWrapper(d.tsType)
    THEN /\ d.by = "nullable"
         /\ hasErrors(d.result)
               \/ /\ d.result.typeDefinition.type = "nullable"
                  /\ d.result.typeDefinition.nullOrUndefinability = AcceptanceOf(d.tsType)
    ELSE /\ d.by \in {"object", "shortcut", "fallback"}
         /\ hasErrors(d.result) \/ d.result.typeDefinition.type # "nullable"

UnionsHandled ==
    \A i \in 1..Len(derivations) :
        derivations[i].tsType.form = "union" => UnionHandled(derivations[i])

\* The call about to run is for a union, within the depth ceiling.
UnionCall ==
    /\ pc = "call"
    /\ call[1].recursionDepth <= MAX_TYPE_DERIVATION_RECURSION
    /\ call[1].tsType.form = "union"

\* The step for a union: a nullable wrapper suspends and derives its one
\* other member under the same type path, one level deeper; any other
\* union returns without a nullable.
UnionStep ==
    IF IsNullableWrapper(call[1].tsType)
    THEN /\ pc' = "call"
         /\ call'[1].tsType = OtherMembers(call[1].tsType)[1]
         /\ call'[1].typePath = call[1].typePath
         /\ call'[1].recursionDepth = call[1].recursionDepth + 1
         /\ Len(stack') = Len(stack) + 1
         /\ stack'[Len(stack')].frame = "nullable"
         /\ stack'[Len(stack')].nullOrUndefinability = AcceptanceOf(call[1].tsType)
    ELSE /\ pc' \in {"return", "object", "thrown"}
         /\ pc' = "return" =>
               hasErrors(result'[1]) \/ result'[1].typeDefinition.type # "nullable"

(***************************************************************************)
(* C19: a union is treated as a nullable wrapper exactly when one member   *)
(* remains after removing null and undefined and at least one of those was *)
(* present; the flag is null-only, undefined-only or either by the markers *)
(* that occurred, and the remaining member is derived under the same type  *)
(* path; with zero or several remaining members the union is no nullable   *)
(* wrapper and goes to the structured-object or fallback path.             *)
(***************************************************************************)
C19_NullableWrapper ==
    /\ []UnionsHandled
    /\ [][UnionCall => UnionStep]_vars

\* A pass returned after unions with each of the three flags, a union with
\* no member besides null and undefined and one with two.
C19_Witness ==
    /\ PassReturned
    /\ \A flag \in {"AcceptsNullOnly", "AcceptsUndefinedOnly", "AcceptsEither"} :
          \E i \in 1..Len(derivations) :
              /\ derivations[i].by = "nullable"
              /\ ~hasErrors(derivations[i].result)
              /\ derivations[i].result.typeDefinition.nullOrUndefinability = flag
    /\ \A n \in {0, 2} :
          \E i \in 1..Len(derivations) :
              /\ derivations[i].tsType.form = "union"
              /\ Len(OtherMembers(derivations[i].tsType)) = n
              /\ derivations[i].by = "fallback"

(***************************************************************************)
(* Arguments against declared parameters.                                  *)
(***************************************************************************)
\* The finished calls for the parameters of the i-th declaration, in order
ParameterDerivations(i) ==
    SelectSeq(DeclarationDerivations(i),
              LAMBDA d : d.typePath[1].segmentType = "FunctionParameter")

\* The arguments are the first n parameters of the i-th declaration, each
\* once and in declaration order, with the types their derivations returned.
ArgumentsAreParameters(arguments, i, n) ==
    /\ Len(arguments) = n
    /\ \A k \in 1..n :
          /\ arguments[k].argumentName = functionDeclarations[i].parameters[k].name
          /\ ~hasErrors(ParameterDerivations(i)[k].result)
          /\ arguments[k].type = ParameterDerivations(i)[k].result.typeDefinition

\* The names of the parameters among the first n of the i-th declaration
\* whose derivation succeeded
RECURSIVE DerivedParameterNames(_, _)
DerivedParameterNames(i, n) ==
    IF n = 0 THEN << >>
    ELSE DerivedParameterNames(i, n - 1)
            \o (IF hasErrors(ParameterDerivations(i)[n].result) THEN << >>
                ELSE << functionDeclarations[i].parameters[n].name >>)

\* The declarations of `name` whose result carried a definition
UsableDeclarations(name) ==
    { j \in DeclarationsDone(name) : ~BrokenDeclaration(j) }

(***************************************************************************)
(* C20: the arguments of every function present in functions are exactly   *)
(* its declared parameters, each once and in declaration order; a          *)
(* parameter whose type derivation failed is in no argument list, neither  *)
(* in an emitted FunctionDefinition nor in the one being built.  (The      *)
(* definition under a name is that of the last declaration of the name     *)
(* that yielded one.)                                                      *)
(***************************************************************************)
C20_ArgumentsAreDeclaredParameters ==
    pc # "deriveSchema" =>
        /\ \A name \in DOMAIN schemaFunctions :
              /\ UsableDeclarations(name) # {}
              /\ ArgumentsAreParameters(
                     schemaFunctions[name].arguments, Max(UsableDeclarations(name)),
                     Len(functionDeclarations[Max(UsableDeclarations(name))].parameters))
        /\ \A i \in 1..declIndex :
              LET name == functionDeclarations[i].name[1]
              IN  (\A j \in DeclarationsDone(name) :
                      \E d \in Range(ParameterDerivations(j)) : hasErrors(d.result))
                      => name \notin DOMAIN schemaFunctions
        /\ pc = "function" =>
              [ k \in 1..Len(Top.functionSchemaArguments) |->
                    Top.functionSchemaArguments[k].argumentName ]
                  = DerivedParameterNames(declIndex + 1, Top.paramIndex)

\* A pass returned a function with three arguments, and left out a
\* function of which one parameter was derived and two failed.
C20_Witness ==
    /\ PassReturned
    /\ \E name \in DOMAIN schemaFunctions : Len(schemaFunctions[name].arguments) = 3
    /\ \E i \in 1..declIndex :
          LET name == functionDeclarations[i].name[1]
              failed == SelectSeq(ParameterDerivations(i), LAMBDA d : hasErrors(d.result))
          IN  /\ Len(failed) = 2
              /\ Len(ParameterDerivations(i)) = 3
              /\ name \notin DOMAIN schemaFunctions

(***************************************************************************)
(* Who writes a registry entry.                                            *)
(***************************************************************************)
\* { properties: [] }
Placeholder == [properties |-> << >>]

\* The expansions in progress hold different names, and each finds its
\* entry as it put it there: nothing wrote the entry since.
PlaceholdersOwned ==
    \A k \in ObjectFrames :
        /\ stack[k].generatedTypeName \in DOMAIN objectTypeDefinitions
        /\ objectTypeDefinitions[stack[k].generatedTypeName] = Placeholder
        /\ \A j \in ObjectFrames :
              stack[j].generatedTypeName = stack[k].generatedTypeName => j = k

\* The names whose entry the step adds, changes or removes
WrittenNames ==
    { n \in DOMAIN objectTypeDefinitions \cup DOMAIN objectTypeDefinitions' :
        \/ n \notin DOMAIN objectTypeDefinitions
        \/ n \notin DOMAIN objectTypeDefinitions'
        \/ objectTypeDefinitions'[n] # objectTypeDefinitions[n] }

\* The pending call found no entry under n: it inserts the placeholder and
\* becomes the expansion of n.
InsertsPlaceholder(n) ==
    /\ pc = "call"
    /\ n \notin DOMAIN objectTypeDefinitions
    /\ n \in DOMAIN objectTypeDefinitions'
    /\ objectTypeDefinitions'[n] = Placeholder
    /\ Len(stack') = Len(stack) + 1
    /\ stack'[Len(stack')].frame = "object"
    /\ stack'[Len(stack')].generatedTypeName = n
    /\ stack'[Len(stack')].typePath = call[1].typePath

\* The expansion of n, all members derived, ends: it commits the final
\* properties, or removes the entry when a member failed.
OwnerWrites(n) ==
    /\ pc = "object"
    /\ Top.frame = "object"
    /\ Top.generatedTypeName = n
    /\ Top.index = Len(Top.members)
    /\ stack' = Pop
    /\ pc' = "return"
    /\ IF Top.errors = << >>
       THEN /\ n \in DOMAIN objectTypeDefinitions'
            /\ objectTypeDefinitions'[n] = [properties |-> Top.properties]
            /\ Len(Top.properties) = Len(Top.members)
            /\ result'[1] = Derived(NamedType(n, "object"), Top.warnings)
       ELSE /\ n \notin DOMAIN objectTypeDefinitions'
            /\ result'[1] = Failed(Top.errors)

\* Within a pass an entry is written by the call that inserts it and by
\* that call's end only.
WrittenByOwner ==
    pc # "deriveSchema" =>
        \A n \in WrittenNames : InsertsPlaceholder(n) \/ OwnerWrites(n)

\* The pending call reaches the object branch and the name generated for
\* its type has an entry.
FindsNamePresent ==
    /\ pc = "call"
    /\ branch = "object"
    /\ info.tag = "return"
    /\ info.value[1].generatedTypeName \in DOMAIN objectTypeDefinitions

\* The call returns the reference at once: no frame, no call for a
\* property, no write.
ReturnsReference ==
    /\ result' = Some(Derived(NamedType(info.value[1].generatedTypeName, "object"), << >>))
    /\ pc' = "return"
    /\ call' = None
    /\ stack' = stack
    /\ objectTypeDefinitions' = objectTypeDefinitions
    /\ scalarTypeDefinitions' = scalarTypeDefinitions
    /\ Len(derivations') = Len(derivations) + 1
    /\ derivations'[Len(derivations')].by = "shortcut"
    /\ derivations'[Len(derivations')].typePath = call[1].typePath

\* typePath continues `prefix` with a property of the type derived there
IsPropertyPathOf(typePath, prefix) ==
    /\ Len(typePath) > Len(prefix)
    /\ SubSeq(typePath, 1, Len(prefix)) = prefix
    /\ typePath[Len(prefix) + 1].segmentType = "ObjectProperty"

\* No finished call derived a property for a call that took the shortcut
\* (type paths tell the calls of one declaration apart), and each such
\* call returned the reference with no warnings.
ShortcutsDeriveNothing ==
    \A i \in ObjectSites :
        derivations[i].by = "shortcut" =>
            /\ derivations[i].result
                  = Derived(NamedType(GeneratedName(derivations[i]), "object"), << >>)
            /\ \A j \in 1..Len(derivations) :
                  derivations[j].declaration = derivations[i].declaration
                      => ~IsPropertyPathOf(derivations[j].typePath,
                                           derivations[i].typePath)

(***************************************************************************)
(* C21: a registry entry belongs to the derivation call that inserted its  *)
(* placeholder: within a pass only that call writes the entry afterwards   *)
(* (it commits the final properties, or removes the entry on failure), and *)
(* any other derivation that finds the name present returns the Named      *)
(* object reference with no warnings, derives none of the type's           *)
(* properties and leaves the registry unchanged.                           *)
(***************************************************************************)
C21_EntryOwnedByInserter ==
    /\ [](PlaceholdersOwned /\ ShortcutsDeriveNothing)
    /\ [][WrittenByOwner /\ (FindsNamePresent => ReturnsReference)]_vars

\* A pass returned in which one call found the name of a type still under
\* expansion (the expansion ended later and committed properties), and
\* another found an entry committed before.
C21_Witness ==
    /\ PassReturned
    /\ \E i, j \in ObjectSites :
          /\ i < j
          /\ derivations[i].by = "shortcut"
          /\ derivations[j].by = "object"
          /\ GeneratedName(derivations[i]) = GeneratedName(derivations[j])
          /\ ~hasErrors(derivations[j].result)
          /\ objectTypeDefinitions[GeneratedName(derivations[j])] # Placeholder
    /\ \E i, j \in ObjectSites :
          /\ j < i
          /\ derivations[i].by = "shortcut"
          /\ derivations[j].by = "object"
          /\ GeneratedName(derivations[i]) = GeneratedName(derivations[j])
          /\ ~hasErrors(derivations[j].result)

(***************************************************************************)
(* Two passes over the same functions, declared in different orders.       *)
(***************************************************************************)
\* The names of the exported functions the declarations give
DeclaredNames(declarations) ==
    { declarations[i].name[1] :
        i \in { k \in 1..Len(declarations) : declarations[k].name # None } }

\* The functions of the declarations that the returned schema leaves out
BrokenIn(declarations, returned) ==
    DeclaredNames(declarations) \ DOMAIN returned.functions

\* This pass ran over the declarations of the earlier pass in another order.
SameFunctionsReordered ==
    /\ previous # None
    /\ previous[1].functionDeclarations \in Reorderings(functionDeclarations)

(***************************************************************************)
(* C22: the outcome of a pass does not depend on the order in which the    *)
(* exported functions are declared: a pass over the same functions in      *)
(* another order returns the same usable functions with the same           *)
(* definitions, leaves out the same broken functions, and returns equal    *)
(* objectTypes and scalarTypes.                                            *)
(***************************************************************************)
C22_OrderIndependent ==
    (PassReturned /\ SameFunctionsReordered) =>
        /\ schemaFunctions = previous[1].returned.functions
        /\ BrokenIn(functionDeclarations, ReturnedSchema)
              = BrokenIn(previous[1].functionDeclarations, previous[1].returned)
        /\ objectTypeDefinitions = previous[1].returned.objectTypes
        /\ scalarTypeDefinitions = previous[1].returned.scalarTypes

(***************************************************************************)
(* The issue report against functions.                                     *)
(***************************************************************************)
\* No finished call returned a warning.
NoWarnings ==
    \A i \in 1..Len(derivations) :
        ~hasErrors(derivations[i].result) => derivations[i].result.warnings = << >>

DeclaredOnce(name) ==
    \A i, j \in 1..Len(functionDeclarations) :
        (functionDeclarations[i].name = Some(name)
            /\ functionDeclarations[j].name = Some(name)) => i = j

====
